---- MODULE Spec2Model ----
(***************************************************************************)
(* A model of the prost field codec: the per-field encode / merge /        *)
(* encoded_len / clear / default operations that prost-derive generates    *)
(* from a field descriptor (prost-derive/src/field/scalar.rs, message.rs,  *)
(* mod.rs), run against the wire primitives of the protobuf encoding.      *)
(*                                                                         *)
(* A byte is an integer in 0..255 and a buffer is a sequence of bytes.  A   *)
(* number is the sequence of the bytes of its Rust type, least significant *)
(* first (four bytes for i32, u32 and f32, eight for i64, u64 and f64), so *)
(* that two's complement and IEEE bit patterns keep their exact width.     *)
(* Option<T> is a sequence of length at most one, Vec<T> is a sequence.    *)
(***************************************************************************)
EXTENDS Integers, Sequences, FiniteSets, TLC

\* ------------------------------------------------------------------------
\* Words: numbers as little endian bytes
\* ------------------------------------------------------------------------

RECURSIVE Word(_, _)
\* The w low bytes of the integer n (two's complement for a negative n).
Word(n, w) == IF w = 0 THEN <<>> ELSE <<n % 256>> \o Word(n \div 256, w - 1)

AllZero(v) == \A i \in 1..Len(v) : v[i] = 0

\* v truncated (as) or zero-extended to w bytes.
ZeroExt(v, w) == [i \in 1..w |-> IF i <= Len(v) THEN v[i] ELSE 0]

IsNegative(v) == v[Len(v)] >= 128

\* v truncated or sign-extended to w bytes.
SignExt(v, w) ==
    [i \in 1..w |-> IF i <= Len(v) THEN v[i] ELSE IF IsNegative(v) THEN 255 ELSE 0]

RECURSIVE XorByte(_, _, _)
\* The exclusive or of the k low bits of two bytes.
XorByte(a, b, k) ==
    IF k = 0 THEN 0 ELSE ((a + b) % 2) + 2 * XorByte(a \div 2, b \div 2, k - 1)

Xor(a, b) == [i \in 1..Len(a) |-> XorByte(a[i], b[i], 8)]

\* n << 1, modulo 2^(8 * Len(v)).
Shl1(v) ==
    [i \in 1..Len(v) |-> ((2 * v[i]) % 256) + (IF i > 1 THEN v[i - 1] \div 128 ELSE 0)]

\* Logical n >> 1.
Shr1(v) ==
    [i \in 1..Len(v) |-> (v[i] \div 2) + (IF i < Len(v) THEN (v[i + 1] % 2) * 128 ELSE 0)]

\* Arithmetic n >> (width - 1): every bit is the sign bit.
SarAll(v) == [i \in 1..Len(v) |-> IF IsNegative(v) THEN 255 ELSE 0]

\* -(n & 1): every bit is the lowest bit.
NegLowBit(v) == [i \in 1..Len(v) |-> IF v[1] % 2 = 1 THEN 255 ELSE 0]

RECURSIVE Regroup(_, _, _, _, _)
\* The digits in, of from bits each and least significant first, as digits of
\* to bits each; acc holds the nbits bits read and not yet written.
Regroup(in, acc, nbits, from, to) ==
    IF nbits >= to
    THEN <<acc % (2 ^ to)>> \o Regroup(in, acc \div (2 ^ to), nbits - to, from, to)
    ELSE IF in # <<>>
    THEN Regroup(Tail(in), acc + in[1] * (2 ^ nbits), nbits + from, from, to)
    ELSE IF nbits > 0 THEN <<acc>> ELSE <<>>

\* The number a word of at most three bytes stands for.
Small(v) == v[1] + 256 * v[2] + 65536 * v[3]

\* ------------------------------------------------------------------------
\* WireOps: varint, zigzag, fixed width, keys
\* ------------------------------------------------------------------------

\* Wire types.
Varint == 0
SixtyFourBit == 1
LengthDelimited == 2
ThirtyTwoBit == 5

\* A varint holds at most ten bytes: ceil(64 / 7).
MaxVarintBytes == 10

Ok(value, rest) == [ok |-> TRUE, err |-> "", value |-> value, rest |-> rest]

\* A failed call: value is what the target holds after it.
Fail(kind, value) == [ok |-> FALSE, err |-> kind, value |-> value, rest |-> <<>>]

Err(kind) == Fail(kind, <<>>)

\* The ? of Rust: next on the value and the rest of a call that succeeded, the
\* failure of one that did not.
Then(r, next(_, _)) == IF r.ok THEN next(r.value, r.rest) ELSE r

\* The same, the target left holding value by a failure.
ThenOr(r, next(_, _), value) == IF r.ok THEN next(r.value, r.rest) ELSE Fail(r.err, value)

RECURSIVE Continued(_)
\* The seven bit groups up to the highest non-zero one, each but the last with
\* the continuation bit.
Continued(groups) ==
    IF Len(groups) <= 1 \/ AllZero(Tail(groups)) THEN <<groups[1]>>
    ELSE <<groups[1] + 128>> \o Continued(Tail(groups))

\* LEB128 of a 64 bit word: seven bits a byte, least significant group first,
\* the high bit of a byte says that another byte follows.
EncodeVarint(v) == Continued(Regroup(v, 0, 0, 8, 7))

RECURSIVE VarintGroups(_, _)
\* The seven bit groups of the varint that starts at byte i of buf, up to and
\* with the first byte without continuation bit.
VarintGroups(buf, i) ==
    IF i > MaxVarintBytes THEN Err("VarintOverflow")
    ELSE IF i > Len(buf) THEN Err("Truncated")
    ELSE IF buf[i] < 128 THEN Ok(<<buf[i]>>, SubSeq(buf, i + 1, Len(buf)))
    ELSE Then(VarintGroups(buf, i + 1),
              LAMBDA groups, rest : Ok(<<buf[i] % 128>> \o groups, rest))

\* decode_varint were an empty buffer to stand for zero.
DecodeVarint_empty_zero(buf) ==
    IF buf = <<>> THEN Ok(Word(0, 8), <<>>)
    ELSE Then(VarintGroups(buf, 1),
              LAMBDA groups, rest : Ok(ZeroExt(Regroup(groups, 0, 0, 7, 8), 8), rest))

\* The 64 bit word a varint stands for, and the bytes after it.
DecodeVarint(buf) ==
    Then(VarintGroups(buf, 1),
         LAMBDA groups, rest : Ok(ZeroExt(Regroup(groups, 0, 0, 7, 8), 8), rest))

\* (n << 1) ^ (n >> (width - 1)) were the right shift logical: the sign bit
\* alone, as the lowest bit.
ZigZagEncode_logical(v) ==
    Xor(Shl1(v), [i \in 1..Len(v) |-> IF i = 1 /\ IsNegative(v) THEN 1 ELSE 0])

\* (n << 1) ^ (n >> (width - 1)), the right shift arithmetic.
ZigZagEncode(v) == Xor(Shl1(v), SarAll(v))

\* (n >> 1) ^ -(n & 1).
ZigZagDecode(v) == Xor(Shr1(v), NegLowBit(v))

\* Little endian bytes of a 32 or 64 bit word.
EncodeFixed(v) == v

DecodeFixed(buf, nbytes) ==
    IF Len(buf) < nbytes THEN Err("Truncated")
    ELSE Ok(SubSeq(buf, 1, nbytes), SubSeq(buf, nbytes + 1, Len(buf)))

\* key = (tag << 3) | wire_type, as a varint.
EncodeKey(tag, wire_type) ==
    EncodeVarint(ZeroExt(Regroup(Word(tag, 4), wire_type, 3, 8, 8), 8))

\* The tag and the wire type of the key k: tag = k >> 3, wire_type = k & 7.
SplitKey(k, rest) ==
    IF k[1] % 8 \notin {Varint, SixtyFourBit, LengthDelimited, ThirtyTwoBit}
    THEN Err("UnexpectedWireType")
    ELSE Ok(<<(k[1] \div 8) + 32 * k[2] + 8192 * k[3] + 2097152 * k[4], k[1] % 8>>, rest)

\* A key read back: value is <<tag, wire_type>>.
DecodeKey(buf) == Then(DecodeVarint(buf), SplitKey)

\* varint(byte length) || bytes.
EncodeLengthDelimited(bs) == EncodeVarint(Word(Len(bs), 8)) \o bs

\* The first n bytes of buf, n given as a word.
Take(n, buf) ==
    IF ~AllZero(SubSeq(n, 4, 8)) \/ Len(buf) < Small(n) THEN Err("Truncated")
    ELSE Ok(SubSeq(buf, 1, Small(n)), SubSeq(buf, Small(n) + 1, Len(buf)))

DecodeLengthDelimited(buf) == Then(DecodeVarint(buf), Take)

\* ------------------------------------------------------------------------
\* Scalar types (scalar.rs, enum Ty) and their values
\* ------------------------------------------------------------------------

Ty == {"double", "float", "int32", "int64", "uint32", "uint64", "sint32", "sint64",
       "fixed32", "fixed64", "sfixed32", "sfixed64", "bool", "string", "bytes", "enum"}

\* Ty::encode_as: an enumeration is encoded as an int32.
encode_as(ty) == IF ty = "enum" THEN "int32" ELSE ty

\* Ty::is_numeric were it to leave out the strings alone.
is_numeric_but_string(ty) == ty # "string"

\* Ty::is_numeric: every type but the length delimited string and bytes.
is_numeric(ty) == ty # "string" /\ ty # "bytes"

\* Ty::rust_type, as the size of the Rust value in bytes: 8 for f64, i64 and u64,
\* 4 for f32, i32 and u32, 1 for bool and 0 for the heap types String and Vec<u8>.
rust_size(ty) ==
    CASE ty \in {"double", "int64", "uint64", "sint64", "fixed64", "sfixed64"} -> 8
      [] ty \in {"float", "int32", "uint32", "sint32", "fixed32", "sfixed32", "enum"} -> 4
      [] ty = "bool" -> 1
      [] OTHER -> 0

\* IEEE 754 bit patterns: 1.0 is 0x3F800000 and 0x3FF0000000000000.
FloatOne(w) == IF w = 4 THEN <<0, 0, 128, 63>> ELSE <<0, 0, 0, 0, 0, 0, 240, 63>>

\* -0.0: the sign bit alone.
FloatNegZero(w) == [i \in 1..w |-> IF i = w THEN 128 ELSE 0]

\* ::std::f32::NAN is 0x7FC00000 and ::std::f64::NAN is 0x7FF8000000000000.
FloatNaN(w) == IF w = 4 THEN <<0, 0, 192, 127>> ELSE <<0, 0, 0, 0, 0, 0, 248, 127>>

\* Exponent all ones and a mantissa that is not zero.
IsNaN(v) ==
    IF Len(v) = 4
    THEN /\ v[4] % 128 = 127 /\ v[3] >= 128
         /\ (v[3] % 128 # 0 \/ v[2] # 0 \/ v[1] # 0)
    ELSE /\ v[8] % 128 = 127 /\ v[7] >= 240
         /\ (v[7] % 16 # 0 \/ ~AllZero(SubSeq(v, 1, 6)))

\* 0.0 or -0.0.
IsFloatZero(v) == v[Len(v)] % 128 = 0 /\ AllZero(SubSeq(v, 1, Len(v) - 1))

\* Rust's != on two values of a scalar type (PartialEq::ne): IEEE comparison on
\* f32 and f64 (a NaN differs from everything, -0.0 equals 0.0), structural
\* otherwise.
Ne(ty, a, b) ==
    IF ty \in {"float", "double"}
    THEN IsNaN(a) \/ IsNaN(b) \/ (a # b /\ ~(IsFloatZero(a) /\ IsFloatZero(b)))
    ELSE a # b

\* <T as Default>::default() of the Rust type of ty.
TypeDefault(ty) ==
    CASE rust_size(ty) = 0 -> <<>>
      [] rust_size(ty) = 1 -> FALSE
      [] OTHER -> Word(0, rust_size(ty))

\* The values a field of type ty takes in the model: zero, one, the all-ones
\* pattern (-1 or the unsigned maximum) and the sign bit alone (the signed
\* minimum); for floats 0.0, -0.0, 1.0 and NaN.
ScalarValues(ty) ==
    CASE ty \in {"float", "double"} ->
            {Word(0, rust_size(ty)), FloatNegZero(rust_size(ty)),
             FloatOne(rust_size(ty)), FloatNaN(rust_size(ty))}
      [] ty = "bool" -> {FALSE, TRUE}
      [] ty = "string" -> {<<>>, <<97>>, <<97, 98>>}
      [] ty = "bytes" -> {<<>>, <<0>>, <<255, 1>>}
      [] ty = "enum" -> {Word(0, 4), Word(1, 4), Word(2, 4)}
      [] OTHER -> {Word(0, rust_size(ty)), Word(1, rust_size(ty)),
                   Word(-1, rust_size(ty)), FloatNegZero(rust_size(ty))}

\* The values DefaultValue::from_lit yields for the default attributes of the
\* model: a non-zero default of each type, and NaN for the floating types.
ExplicitDefaults(ty) ==
    CASE ty \in {"float", "double"} -> {FloatOne(rust_size(ty)), FloatNaN(rust_size(ty))}
      [] ty = "bool" -> {TRUE}
      [] ty = "string" -> {<<97>>}
      [] ty = "bytes" -> {<<0>>}
      [] OTHER -> {Word(1, rust_size(ty))}

\* DefaultValue::new: the zero value of the type.
DefaultValue_new(ty) == TypeDefault(ty)

\* DefaultValue::typed and DefaultValue::owned: the same value, as a literal to
\* compare with and as an owned value to store.
typed(default) == default

owned(default) == default

\* ------------------------------------------------------------------------
\* The encoding functions the generated code calls, prost::encoding::<ty>::*
\* ------------------------------------------------------------------------

WireTypeOf(ty) ==
    CASE ty \in {"int32", "int64", "uint32", "uint64", "sint32", "sint64", "bool"} -> Varint
      [] ty \in {"fixed64", "sfixed64", "double"} -> SixtyFourBit
      [] ty \in {"fixed32", "sfixed32", "float"} -> ThirtyTwoBit
      [] OTHER -> LengthDelimited

\* The 64 bit number a varint typed value is written as: int32 is sign
\* extended, sint32 and sint64 are zigzag encoded, a bool is 0 or 1.
VarintOf(ty, v) ==
    CASE ty = "int32" -> SignExt(v, 8)
      [] ty = "sint32" -> ZeroExt(ZigZagEncode(v), 8)
      [] ty = "sint64" -> ZigZagEncode(v)
      [] ty = "bool" -> Word(IF v THEN 1 ELSE 0, 8)
      [] OTHER -> ZeroExt(v, 8)

\* The value a decoded varint stands for: the cast to the Rust type.
FromVarint(ty, n) ==
    CASE ty \in {"int32", "uint32"} -> ZeroExt(n, 4)
      [] ty = "sint32" -> ZigZagDecode(ZeroExt(n, 4))
      [] ty = "sint64" -> ZigZagDecode(n)
      [] ty = "bool" -> ~AllZero(n)
      [] OTHER -> n

EncodeAs(wire_type, ty, v) ==
    CASE wire_type = Varint -> EncodeVarint(VarintOf(ty, v))
      [] wire_type = LengthDelimited -> EncodeLengthDelimited(v)
      [] OTHER -> EncodeFixed(v)

\* The bytes of one value, without its key.
EncodeValue(ty, v) == EncodeAs(WireTypeOf(ty), ty, v)

DecodeAs(wire_type, ty, buf) ==
    CASE wire_type = Varint ->
            Then(DecodeVarint(buf), LAMBDA n, rest : Ok(FromVarint(ty, n), rest))
      [] wire_type = LengthDelimited -> DecodeLengthDelimited(buf)
      [] OTHER -> DecodeFixed(buf, IF wire_type = ThirtyTwoBit THEN 4 ELSE 8)

\* One value, without its key, read back.
DecodeValue(ty, buf) == DecodeAs(WireTypeOf(ty), ty, buf)

RECURSIVE Concat(_)
Concat(ss) == IF ss = <<>> THEN <<>> ELSE ss[1] \o Concat(Tail(ss))

RECURSIVE Sum(_)
Sum(ns) == IF ns = <<>> THEN 0 ELSE ns[1] + Sum(Tail(ns))

\* encode: key, then the value.
encoding_encode(ty, tag, value) == EncodeKey(tag, WireTypeOf(ty)) \o EncodeValue(ty, value)

\* encode_repeated: one key and value for each element, in order.
encoding_encode_repeated(ty, tag, values) ==
    Concat([i \in 1..Len(values) |-> encoding_encode(ty, tag, values[i])])

\* encode_packed: nothing for an empty sequence; else one key, the byte length
\* of the run, and the values without keys.
encoding_encode_packed(ty, tag, values) ==
    IF values = <<>> THEN <<>>
    ELSE EncodeKey(tag, LengthDelimited)
         \o EncodeLengthDelimited(Concat([i \in 1..Len(values) |-> EncodeValue(ty, values[i])]))

\* merge: the wire type is checked, the value decoded and written over the old.
encoding_merge(ty, wire_type, value, buf) ==
    IF wire_type # WireTypeOf(ty) THEN Fail("UnexpectedWireType", value)
    ELSE ThenOr(DecodeValue(ty, buf), Ok, value)

RECURSIVE DecodeRun(_, _, _)
\* The values of a packed run, pushed onto values one by one.
DecodeRun(ty, run, values) ==
    IF run = <<>> THEN Ok(values, <<>>)
    ELSE ThenOr(DecodeValue(ty, run),
                LAMBDA v, rest : DecodeRun(ty, rest, Append(values, v)), values)

\* merge_repeated: a numeric type arriving length delimited is a packed run,
\* whose values are all appended; anything else is one value, appended.
encoding_merge_repeated(ty, wire_type, values, buf) ==
    IF is_numeric(ty) /\ wire_type = LengthDelimited
    THEN ThenOr(DecodeLengthDelimited(buf),
                LAMBDA run, rest : Then(DecodeRun(ty, run, values),
                                        LAMBDA all, none : Ok(all, rest)),
                values)
    ELSE ThenOr(encoding_merge(ty, wire_type, TypeDefault(ty), buf),
                LAMBDA v, rest : Ok(Append(values, v), rest), values)

RECURSIVE GroupsLen(_)
GroupsLen(groups) ==
    IF Len(groups) <= 1 \/ AllZero(Tail(groups)) THEN 1 ELSE 1 + GroupsLen(Tail(groups))

\* encoded_len_varint: the number of seven bit groups up to the highest set bit.
VarintLen(v) == GroupsLen(Regroup(v, 0, 0, 8, 7))

key_len(tag) == VarintLen(ZeroExt(Regroup(Word(tag, 4), 0, 3, 8, 8), 8))

\* The length of a run of len bytes with its length prefix.
DelimitedLen(len) == VarintLen(Word(len, 8)) + len

LenAs(wire_type, ty, v) ==
    CASE wire_type = Varint -> VarintLen(VarintOf(ty, v))
      [] wire_type = LengthDelimited -> DelimitedLen(Len(v))
      [] wire_type = ThirtyTwoBit -> 4
      [] OTHER -> 8

\* The length of one value, without its key.
ValueLen(ty, v) == LenAs(WireTypeOf(ty), ty, v)

encoding_encoded_len(ty, tag, value) == key_len(tag) + ValueLen(ty, value)

encoding_encoded_len_repeated(ty, tag, values) ==
    Sum([i \in 1..Len(values) |-> encoding_encoded_len(ty, tag, values[i])])

encoding_encoded_len_packed(ty, tag, values) ==
    IF values = <<>> THEN 0
    ELSE key_len(tag) + DelimitedLen(Sum([i \in 1..Len(values) |-> ValueLen(ty, values[i])]))

\* The function a generated call names: _prost::encoding::<ty>::<op><suffix>.
encode_fn(ty, suffix, tag, value) ==
    CASE suffix = "" -> encoding_encode(ty, tag, value)
      [] suffix = "_repeated" -> encoding_encode_repeated(ty, tag, value)
      [] suffix = "_packed" -> encoding_encode_packed(ty, tag, value)

merge_fn(ty, suffix, wire_type, value, buf) ==
    CASE suffix = "" -> encoding_merge(ty, wire_type, value, buf)
      [] suffix = "_repeated" -> encoding_merge_repeated(ty, wire_type, value, buf)

encoded_len_fn(ty, suffix, tag, value) ==
    CASE suffix = "" -> encoding_encoded_len(ty, tag, value)
      [] suffix = "_repeated" -> encoding_encoded_len_repeated(ty, tag, value)
      [] suffix = "_packed" -> encoding_encoded_len_packed(ty, tag, value)

\* ------------------------------------------------------------------------
\* scalar::Field (prost-derive/src/field/scalar.rs)
\* ------------------------------------------------------------------------

\* Option<T>.
None == <<>>

Some(x) == <<x>>

\* Field::new were a repeated field without a packed attribute to be unpacked
\* whatever its type: packed.unwrap_or(false).
scalar_new_unpacked(attrs) ==
    IF attrs.ty = None THEN Ok(None, <<>>)
    ELSE IF attrs.tag = None THEN Err("missing tag attribute")
    ELSE
    LET ty          == attrs.ty[1]
        label       == attrs.label
        packed      == attrs.packed
        has_default == attrs.default # None
        default     == IF has_default THEN attrs.default[1] ELSE DefaultValue_new(ty)
        field(kind) == Ok(Some([ty |-> ty, kind |-> kind, tag |-> attrs.tag[1]]), <<>>)
        with(kind)  == Ok(Some([ty |-> ty, kind |-> kind, default |-> default,
                                tag |-> attrs.tag[1]]), <<>>)
    IN  IF label \in {None, Some("optional"), Some("required")} /\ packed = Some(TRUE)
        THEN Err("packed attribute may only be applied to repeated fields")
        ELSE IF label = Some("repeated") /\ packed = Some(TRUE) /\ ~is_numeric(ty)
        THEN Err("packed attribute may only be applied to numeric types")
        ELSE IF label = Some("repeated") /\ has_default
        THEN Err("repeated fields may not have a default value")
        ELSE IF label = None THEN with("Plain")
        ELSE IF label = Some("optional") THEN with("Optional")
        ELSE IF label = Some("required") THEN with("Required")
        ELSE IF (IF packed = None THEN FALSE ELSE packed[1])
        THEN field("Packed")
        ELSE field("Repeated")

\* Field::new, from the match on the type attribute on: attrs holds the
\* attributes as the loop over them left them, each an Option.  The result is
\* Ok(Some(field)), Ok(None) (value <<>>: not a scalar field) or an error.
scalar_new(attrs) ==
    IF attrs.ty = None THEN Ok(None, <<>>)
    ELSE IF attrs.tag = None THEN Err("missing tag attribute")
    ELSE
    LET ty          == attrs.ty[1]
        label       == attrs.label
        packed      == attrs.packed
        has_default == attrs.default # None
        default     == IF has_default THEN attrs.default[1] ELSE DefaultValue_new(ty)
        field(kind) == Ok(Some([ty |-> ty, kind |-> kind, tag |-> attrs.tag[1]]), <<>>)
        with(kind)  == Ok(Some([ty |-> ty, kind |-> kind, default |-> default,
                                tag |-> attrs.tag[1]]), <<>>)
    IN  IF label \in {None, Some("optional"), Some("required")} /\ packed = Some(TRUE)
        THEN Err("packed attribute may only be applied to repeated fields")
        ELSE IF label = Some("repeated") /\ packed = Some(TRUE) /\ ~is_numeric(ty)
        THEN Err("packed attribute may only be applied to numeric types")
        ELSE IF label = Some("repeated") /\ has_default
        THEN Err("repeated fields may not have a default value")
        ELSE IF label = None THEN with("Plain")
        ELSE IF label = Some("optional") THEN with("Optional")
        ELSE IF label = Some("required") THEN with("Required")
        ELSE IF (IF packed = None THEN is_numeric(ty) ELSE packed[1])
        THEN field("Packed")
        ELSE field("Repeated")

\* The function suffix Field::encode and Field::encoded_len pick for a kind.
encode_kind(kind) ==
    CASE kind \in {"Plain", "Optional", "Required"} -> ""
      [] kind = "Repeated" -> "_repeated"
      [] kind = "Packed" -> "_packed"

\* Field::merge were it to follow the declared layout as Field::encode does: a
\* field declared packed would not take the repeated merge.
merge_kind_declared(kind) ==
    CASE kind \in {"Plain", "Optional", "Required", "Packed"} -> ""
      [] kind = "Repeated" -> "_repeated"

\* The function suffix Field::merge picks for a kind.
merge_kind(kind) ==
    CASE kind \in {"Plain", "Optional", "Required"} -> ""
      [] kind \in {"Repeated", "Packed"} -> "_repeated"

\* Field::encode were the Optional arm to elide as the Plain arm does: a present
\* value equal to the default would be skipped.
scalar_encode_eliding(self, ident) ==
    CASE self.kind = "Plain" ->
            IF Ne(self.ty, ident, typed(self.default))
            THEN encode_fn(encode_as(self.ty), encode_kind(self.kind), self.tag, ident)
            ELSE <<>>
      [] self.kind = "Optional" ->
            IF ident # None /\ Ne(self.ty, ident[1], typed(self.default))
            THEN encode_fn(encode_as(self.ty), encode_kind(self.kind), self.tag, ident[1])
            ELSE <<>>
      [] self.kind \in {"Required", "Repeated", "Packed"} ->
            encode_fn(encode_as(self.ty), encode_kind(self.kind), self.tag, ident)

\* Field::encode: the bytes the generated statement appends to buf.
scalar_encode(self, ident) ==
    CASE self.kind = "Plain" ->
            IF Ne(self.ty, ident, typed(self.default))
            THEN encode_fn(encode_as(self.ty), encode_kind(self.kind), self.tag, ident)
            ELSE <<>>
      [] self.kind = "Optional" ->
            IF ident # None
            THEN encode_fn(encode_as(self.ty), encode_kind(self.kind), self.tag, ident[1])
            ELSE <<>>
      [] self.kind \in {"Required", "Repeated", "Packed"} ->
            encode_fn(encode_as(self.ty), encode_kind(self.kind), self.tag, ident)

\* The Option a merge into its slot leaves.
Present(r) == [r EXCEPT !.value = Some(r.value)]

\* Field::merge: the generated expression, on the value that follows a key of
\* wire type wire_type.  value is the field afterwards, rest the bytes left.
scalar_merge(self, wire_type, ident, buf) ==
    CASE self.kind \in {"Plain", "Required", "Repeated", "Packed"} ->
            merge_fn(encode_as(self.ty), merge_kind(self.kind), wire_type, ident, buf)
      [] self.kind = "Optional" ->
            \* ident.get_or_insert_with(Default::default) is merged into.
            Present(merge_fn(encode_as(self.ty), merge_kind(self.kind), wire_type,
                             IF ident = None THEN TypeDefault(self.ty) ELSE ident[1], buf))

\* Field::encoded_len without the comparison of its Plain arm: a field at its
\* default would be counted.
scalar_encoded_len_unskipped(self, ident) ==
    CASE self.kind = "Optional" ->
            IF ident # None
            THEN encoded_len_fn(encode_as(self.ty), encode_kind(self.kind), self.tag, ident[1])
            ELSE 0
      [] self.kind \in {"Plain", "Required", "Repeated", "Packed"} ->
            encoded_len_fn(encode_as(self.ty), encode_kind(self.kind), self.tag, ident)

\* Field::encoded_len.
scalar_encoded_len(self, ident) ==
    CASE self.kind = "Plain" ->
            IF Ne(self.ty, ident, typed(self.default))
            THEN encoded_len_fn(encode_as(self.ty), encode_kind(self.kind), self.tag, ident)
            ELSE 0
      [] self.kind = "Optional" ->
            IF ident # None
            THEN encoded_len_fn(encode_as(self.ty), encode_kind(self.kind), self.tag, ident[1])
            ELSE 0
      [] self.kind \in {"Required", "Repeated", "Packed"} ->
            encoded_len_fn(encode_as(self.ty), encode_kind(self.kind), self.tag, ident)

\* Field::clear were its last arm to name Kind::Repeated only: a Packed
\* field would keep its elements.
scalar_clear_repeated(self, ident) ==
    CASE self.kind \in {"Plain", "Required"} ->
            IF self.ty \in {"string", "bytes"} THEN <<>> ELSE typed(self.default)
      [] self.kind = "Optional" -> None
      [] self.kind = "Repeated" -> <<>>
      [] self.kind = "Packed" -> ident

\* Field::clear: the field after the generated statement.  String::clear and
\* Vec::clear leave the value empty.
scalar_clear(self, ident) ==
    CASE self.kind \in {"Plain", "Required"} ->
            IF self.ty \in {"string", "bytes"} THEN <<>> ELSE typed(self.default)
      [] self.kind = "Optional" -> None
      [] self.kind \in {"Repeated", "Packed"} -> <<>>

\* Field::default: the value a new message holds in the field.
scalar_default(self) ==
    CASE self.kind \in {"Plain", "Required"} -> owned(self.default)
      [] self.kind = "Optional" -> None
      [] self.kind \in {"Repeated", "Packed"} -> <<>>

\* ------------------------------------------------------------------------
\* Messages on the wire: prost::encoding::message::*
\* ------------------------------------------------------------------------

\* The message types of the model: Msg of tests/src/msg_fns.rs, u32, which is
\* a message of one uint32 field too, and Container, Foo, Bar and Qux of the
\* field_attributes fixture of prost-build.
MsgTy == {"Msg", "u32", "Container", "Foo", "Bar", "Qux"}

\* The field of Msg and of a u32: #[prost(uint32, tag = "1")].
ValueField ==
    scalar_new([ty |-> Some("uint32"), label |-> None, packed |-> None,
                default |-> None, tag |-> Some(1)]).value[1]

\* The field of Foo: #[prost(string, tag = "1")].
FooField ==
    scalar_new([ty |-> Some("string"), label |-> None, packed |-> None,
                default |-> None, tag |-> Some(1)]).value[1]

\* The uint32 a message holds, and the message that holds a uint32.
Inner(msg_ty, msg) == IF msg_ty = "Msg" THEN msg.field ELSE msg

Outer(msg_ty, n) == IF msg_ty = "Msg" THEN [field |-> n] ELSE n

\* Qux has no field: the one value of the struct.
Qux == "Qux {}"

MessageDefault(msg_ty) ==
    CASE msg_ty \in {"Msg", "u32"} -> Outer(msg_ty, scalar_default(ValueField))
      [] msg_ty = "Container" -> [data |-> None]
      [] msg_ty = "Foo" -> [foo |-> scalar_default(FooField)]
      [] msg_ty = "Bar" -> [qux |-> None]
      [] msg_ty = "Qux" -> Qux

\* Message::encode_raw, Message::encoded_len and Message::merge_field as
\* derived for each message from its fields; defined with the messages below.
RECURSIVE encode_raw(_, _), message_len(_, _), merge_field(_, _, _, _, _)

\* Message::clear as derived, defined with them.
RECURSIVE Message_clear(_, _)

\* message::encode: key, length, then the fields of the message.
encoding_message_encode(tag, msg_ty, msg) ==
    EncodeKey(tag, LengthDelimited)
    \o EncodeVarint(Word(message_len(msg_ty, msg), 8))
    \o encode_raw(msg_ty, msg)

encoding_message_encoded_len(tag, msg_ty, msg) == key_len(tag) + DelimitedLen(message_len(msg_ty, msg))

\* A value of wire type wire_type passed over: one varint, eight or four bytes,
\* or a length and as many bytes.
Skip(wire_type, buf) ==
    CASE wire_type = Varint -> DecodeVarint(buf)
      [] wire_type = LengthDelimited -> DecodeLengthDelimited(buf)
      [] OTHER -> DecodeFixed(buf, IF wire_type = ThirtyTwoBit THEN 4 ELSE 8)

RECURSIVE merge_loop(_, _, _)
\* Message::merge on the bytes of a frame: key after key, the value that
\* follows each merged by merge_field of the message.
merge_loop(msg_ty, msg, frame) ==
    IF frame = <<>> THEN Ok(msg, <<>>)
    ELSE ThenOr(DecodeKey(frame),
                LAMBDA key, rest :
                    ThenOr(merge_field(msg_ty, msg, key[1], key[2], rest),
                           LAMBDA merged, more : merge_loop(msg_ty, merged, more),
                           msg),
                msg)

\* message::merge: the frame of a length delimited value is merged into msg.
encoding_message_merge(msg_ty, wire_type, msg, buf) ==
    IF wire_type # LengthDelimited THEN Fail("UnexpectedWireType", msg)
    ELSE ThenOr(DecodeLengthDelimited(buf),
                LAMBDA frame, rest : Then(merge_loop(msg_ty, msg, frame),
                                          LAMBDA merged, none : Ok(merged, rest)),
                msg)

\* message::merge_repeated: a new message is merged into and pushed.
encoding_message_merge_repeated(msg_ty, wire_type, msgs, buf) ==
    ThenOr(encoding_message_merge(msg_ty, wire_type, MessageDefault(msg_ty), buf),
           LAMBDA msg, rest : Ok(Append(msgs, msg), rest), msgs)

\* ------------------------------------------------------------------------
\* message::Field (prost-derive/src/field/message.rs)
\* ------------------------------------------------------------------------

\* The Rust types of the message fields of the model.
FieldTy == {"Msg", "u32", "(u32, String)", "Option<Msg>", "Option<u32>",
            "Vec<Msg>", "Vec<u32>", "Vec<Option<Msg>>", "Vec<(u32, String)>",
            "Foo", "Bar", "Option<Qux>"}

\* The type inside an Option or a Vec.
ElemTy(field_ty) ==
    CASE field_ty \in {"Option<Msg>", "Vec<Msg>"} -> "Msg"
      [] field_ty \in {"Option<u32>", "Vec<u32>"} -> "u32"
      [] field_ty = "Vec<Option<Msg>>" -> "Option<Msg>"
      [] field_ty = "Vec<(u32, String)>" -> "(u32, String)"
      [] field_ty = "Option<Qux>" -> "Qux"
      [] OTHER -> field_ty

\* <T as Default>::default().
RustDefault(field_ty) ==
    CASE field_ty \in MsgTy -> MessageDefault(field_ty)
      [] field_ty = "(u32, String)" -> <<MessageDefault("u32"), <<>>>>
      [] field_ty \in {"Option<Msg>", "Option<u32>", "Option<Qux>"} -> None
      [] OTHER -> <<>>

\* The functions that the as_msg, as_msgs, to_msg, to_msgs and from_msg
\* attributes of the model name, applied: those of tests/src/msg_fns.rs, and the
\* borrowing conversions of Option and Vec.
Call(hook, x) ==
    CASE hook = "as_ref_unwrap" -> x[1]               \* val.as_ref().unwrap()
      [] hook = "Option::Some" -> Some(x)
      [] hook = "msg_field" -> x.field                \* |m: &Msg| m.field
      [] hook = "new_msg" -> [field |-> x]            \* |field: u32| Msg { field }
      [] hook = "get_tuple_left" -> x[1]              \* &tuple.0
      [] hook = "none" -> None                        \* |_| Option::<u32>::None
      [] hook \in {"id", "Option::as_ref", "Vec::as_slice"} -> x

\* The functions that the merge_msg attributes name.
CallMerge(hook, ident, msg) ==
    CASE hook = "set_tuple_left" -> <<msg, ident[2]>> \* |t, l| t.0 = l
      [] hook = "Vec::push" -> Append(ident, msg)

\* The message type a conversion returns or takes.
HookMsgTy(hook) ==
    CASE hook \in {"as_ref_unwrap", "Option::as_ref", "Vec::as_slice", "Option::Some",
                   "Vec::push"} -> "Msg"
      [] OTHER -> "u32"

\* Field::new were a Repeated field to take as_msg or to_msg together with
\* as_msgs or to_msgs.
message_new_mixed(field_ty, attrs, inferred_tag) ==
    LET to_one   == attrs.as_msg # None \/ attrs.to_msg # None
        to_many  == attrs.as_msgs # None \/ attrs.to_msgs # None
        from     == attrs.from_msg # None \/ attrs.merge_msg # None
        new(tag) == Ok(Some([field_ty |-> field_ty,
                             label |-> IF attrs.label = None THEN "Optional" ELSE attrs.label[1],
                             tag |-> tag[1],
                             as_msg |-> attrs.as_msg, as_msgs |-> attrs.as_msgs,
                             to_msg |-> attrs.to_msg, to_msgs |-> attrs.to_msgs,
                             from_msg |-> attrs.from_msg, merge_msg |-> attrs.merge_msg]), <<>>)
    IN  IF ~attrs.message THEN Ok(None, <<>>)
        ELSE IF attrs.unknown # <<>> THEN Err("unknown attribute for message field")
        ELSE IF attrs.tag = None /\ inferred_tag = None
        THEN Err("message field is missing a tag attribute")
        ELSE IF attrs.label = Some("Repeated")
        THEN IF (to_one \/ to_many \/ from) /\ ~(to_one \/ to_many)
             THEN Err("missing as_msg, as_msgs, to_msg, or to_msgs attribute")
             ELSE IF to_many /\ attrs.merge_msg = None
             THEN Err("missing merge_msg attribute")
             ELSE IF (to_one \/ to_many) /\ ~from
             THEN Err("missing from_msg, or merge_msg attribute")
             ELSE new(IF attrs.tag # None THEN attrs.tag ELSE inferred_tag)
        ELSE IF to_many
        THEN Err("as_msgs and to_msgs attributes are only supported for repeated fields")
        ELSE IF (to_one \/ from) /\ ~to_one
        THEN Err("missing as_msg or to_msg attribute")
        ELSE IF to_one /\ ~from
        THEN Err("missing from_msg or merge_msg attribute")
        ELSE new(IF attrs.tag # None THEN attrs.tag ELSE inferred_tag)

\* Field::new, from the test of the message attribute on: attrs holds the
\* attributes as the loop over them left them.
message_new(field_ty, attrs, inferred_tag) ==
    LET to_one   == attrs.as_msg # None \/ attrs.to_msg # None
        to_many  == attrs.as_msgs # None \/ attrs.to_msgs # None
        from     == attrs.from_msg # None \/ attrs.merge_msg # None
        new(tag) == Ok(Some([field_ty |-> field_ty,
                             label |-> IF attrs.label = None THEN "Optional" ELSE attrs.label[1],
                             tag |-> tag[1],
                             as_msg |-> attrs.as_msg, as_msgs |-> attrs.as_msgs,
                             to_msg |-> attrs.to_msg, to_msgs |-> attrs.to_msgs,
                             from_msg |-> attrs.from_msg, merge_msg |-> attrs.merge_msg]), <<>>)
    IN  IF ~attrs.message THEN Ok(None, <<>>)
        ELSE IF attrs.unknown # <<>> THEN Err("unknown attribute for message field")
        ELSE IF attrs.tag = None /\ inferred_tag = None
        THEN Err("message field is missing a tag attribute")
        ELSE IF attrs.label = Some("Repeated")
        THEN IF (to_one \/ to_many \/ from) /\ ~(to_one \/ to_many)
             THEN Err("missing as_msg, as_msgs, to_msg, or to_msgs attribute")
             ELSE IF to_many /\ to_one
             THEN Err("cannot use as_msg/to_msg and as_msgs/to_msgs at the same time")
             ELSE IF to_many /\ attrs.merge_msg = None
             THEN Err("missing merge_msg attribute")
             ELSE IF (to_one \/ to_many) /\ ~from
             THEN Err("missing from_msg, or merge_msg attribute")
             ELSE new(IF attrs.tag # None THEN attrs.tag ELSE inferred_tag)
        ELSE IF to_many
        THEN Err("as_msgs and to_msgs attributes are only supported for repeated fields")
        ELSE IF (to_one \/ from) /\ ~to_one
        THEN Err("missing as_msg or to_msg attribute")
        ELSE IF to_one /\ ~from
        THEN Err("missing from_msg or merge_msg attribute")
        ELSE new(IF attrs.tag # None THEN attrs.tag ELSE inferred_tag)

\* The type of the message the generated code encodes and decodes for the
\* field: what its conversion returns, the type within the field without one.
msg_ty(self) ==
    CASE self.as_msg # None -> HookMsgTy(self.as_msg[1])
      [] self.to_msg # None -> HookMsgTy(self.to_msg[1])
      [] self.as_msgs # None -> HookMsgTy(self.as_msgs[1])
      [] self.to_msgs # None -> HookMsgTy(self.to_msgs[1])
      [] OTHER -> ElemTy(self.field_ty)

\* The Optional arm of Field::encode without its to_msg case: the field itself
\* would be taken for the message.
as_message_unconverted(self, value) ==
    CASE self.as_msg # None -> Call(self.as_msg[1], value)
      [] self.to_msg # None /\ self.label # "Optional" -> Call(self.to_msg[1], value)
      [] OTHER -> value

\* The match on (as_msg, to_msg) of Field::encode and Field::encoded_len: the
\* message, or for an Optional field the Option of a message, to encode for
\* value.  as_msg goes before to_msg.
as_message(self, value) ==
    CASE self.as_msg # None -> Call(self.as_msg[1], value)
      [] self.to_msg # None -> Call(self.to_msg[1], value)
      [] OTHER -> value

\* The match on (as_msgs, to_msgs) of the Repeated arm: the messages to encode.
as_messages(self, ident) ==
    CASE self.as_msgs # None -> Call(self.as_msgs[1], ident)
      [] self.to_msgs # None -> Call(self.to_msgs[1], ident)
      [] OTHER -> [i \in 1..Len(ident) |-> as_message(self, ident[i])]

\* if let Some(value) = msg { message::encode(tag, value, buf) }
encode_some(tag, ty, msg) ==
    IF msg # None THEN encoding_message_encode(tag, ty, msg[1]) ELSE <<>>

\* msgs.iter().for_each(|value| message::encode(tag, value, buf))
encode_each(tag, ty, msgs) ==
    Concat([i \in 1..Len(msgs) |-> encoding_message_encode(tag, ty, msgs[i])])

\* Field::encode: the bytes the generated statement appends to buf.
message_encode(self, ident) ==
    CASE self.label = "Optional" -> encode_some(self.tag, msg_ty(self), as_message(self, ident))
      [] self.label = "Required" ->
            encoding_message_encode(self.tag, msg_ty(self), as_message(self, ident))
      [] self.label = "Repeated" -> encode_each(self.tag, msg_ty(self), as_messages(self, ident))

\* msg.map_or(0, |value| message::encoded_len(tag, value))
encoded_len_some(tag, ty, msg) ==
    IF msg # None THEN encoding_message_encoded_len(tag, ty, msg[1]) ELSE 0

encoded_len_each(tag, ty, msgs) ==
    Sum([i \in 1..Len(msgs) |-> encoding_message_encoded_len(tag, ty, msgs[i])])

\* Field::encoded_len.
message_encoded_len(self, ident) ==
    CASE self.label = "Optional" ->
            encoded_len_some(self.tag, msg_ty(self), as_message(self, ident))
      [] self.label = "Required" ->
            encoding_message_encoded_len(self.tag, msg_ty(self), as_message(self, ident))
      [] self.label = "Repeated" ->
            encoded_len_each(self.tag, msg_ty(self), as_messages(self, ident))

\* let mut msg = Default::default(); message::merge(wire_type, &mut msg, buf, ctx)
merge_new(ty, wire_type, buf) ==
    encoding_message_merge(ty, wire_type, MessageDefault(ty), buf)

\* The Optional arm of Field::merge were it to insert a new message at every
\* occurrence.
get_or_insert_new(ident, ty) == MessageDefault(ty)

\* ident.get_or_insert_with(Default::default): the message an Optional field
\* holds, a new one if it holds none.
get_or_insert_with(ident, ty) == IF ident = None THEN MessageDefault(ty) ELSE ident[1]

\* The Repeated arm of Field::merge were it to insert at the front.
push_front(ident, value) == <<value>> \o ident

\* The Repeated arm of Field::merge were it to assign instead of pushing.
push_over(ident, value) == <<value>>

\* ident.push(value)
push(ident, value) == Append(ident, value)

\* Field::merge were the conversions to decode into the field after resetting
\* it: a decode that fails would leave the default of the field's type.
message_merge_reset(self, wire_type, ident, buf) ==
    CASE self.label = "Optional" /\ self.merge_msg # None ->
            ThenOr(merge_new(msg_ty(self), wire_type, buf),
                   LAMBDA msg, rest : Ok(CallMerge(self.merge_msg[1], ident, Some(msg)), rest),
                   RustDefault(self.field_ty))
      [] self.label = "Optional" /\ self.merge_msg = None /\ self.from_msg # None ->
            ThenOr(merge_new(msg_ty(self), wire_type, buf),
                   LAMBDA msg, rest : Ok(Call(self.from_msg[1], Some(msg)), rest),
                   RustDefault(self.field_ty))
      [] self.label = "Optional" /\ self.merge_msg = None /\ self.from_msg = None ->
            Present(encoding_message_merge(msg_ty(self), wire_type,
                                           get_or_insert_with(ident, msg_ty(self)), buf))
      [] self.label = "Required" /\ self.merge_msg # None ->
            ThenOr(merge_new(msg_ty(self), wire_type, buf),
                   LAMBDA msg, rest : Ok(CallMerge(self.merge_msg[1], ident, msg), rest),
                   RustDefault(self.field_ty))
      [] self.label = "Required" /\ self.merge_msg = None /\ self.from_msg # None ->
            ThenOr(merge_new(msg_ty(self), wire_type, buf),
                   LAMBDA msg, rest : Ok(Call(self.from_msg[1], msg), rest),
                   RustDefault(self.field_ty))
      [] self.label = "Required" /\ self.merge_msg = None /\ self.from_msg = None ->
            encoding_message_merge(msg_ty(self), wire_type, ident, buf)
      [] self.label = "Repeated" /\ self.merge_msg # None
                                 /\ (self.as_msgs # None \/ self.to_msgs # None) ->
            ThenOr(merge_new(msg_ty(self), wire_type, buf),
                   LAMBDA msg, rest : Ok(CallMerge(self.merge_msg[1], ident, msg), rest),
                   RustDefault(self.field_ty))
      [] self.label = "Repeated" /\ self.from_msg # None
                                 /\ ~(self.merge_msg # None
                                      /\ (self.as_msgs # None \/ self.to_msgs # None)) ->
            ThenOr(merge_new(msg_ty(self), wire_type, buf),
                   LAMBDA msg, rest : Ok(push(ident, Call(self.from_msg[1], msg)), rest),
                   RustDefault(self.field_ty))
      [] self.label = "Repeated" /\ self.from_msg = None /\ self.merge_msg # None
                                 /\ self.as_msgs = None /\ self.to_msgs = None ->
            ThenOr(merge_new(msg_ty(self), wire_type, buf),
                   LAMBDA msg, rest :
                       Ok(push(ident, CallMerge(self.merge_msg[1],
                                                RustDefault(ElemTy(self.field_ty)), msg)), rest),
                   RustDefault(self.field_ty))
      [] self.label = "Repeated" /\ self.from_msg = None /\ self.merge_msg = None ->
            encoding_message_merge_repeated(msg_ty(self), wire_type, ident, buf)

\* Field::merge: the generated expression, on the value that follows a key of
\* wire type wire_type.  A hook is called only if the decode succeeded: the
\* map on the Result; the field is as it was otherwise.
message_merge(self, wire_type, ident, buf) ==
    CASE self.label = "Optional" /\ self.merge_msg # None ->
            ThenOr(merge_new(msg_ty(self), wire_type, buf),
                   LAMBDA msg, rest : Ok(CallMerge(self.merge_msg[1], ident, Some(msg)), rest),
                   ident)
      [] self.label = "Optional" /\ self.merge_msg = None /\ self.from_msg # None ->
            ThenOr(merge_new(msg_ty(self), wire_type, buf),
                   LAMBDA msg, rest : Ok(Call(self.from_msg[1], Some(msg)), rest),
                   ident)
      [] self.label = "Optional" /\ self.merge_msg = None /\ self.from_msg = None ->
            Present(encoding_message_merge(msg_ty(self), wire_type,
                                           get_or_insert_with(ident, msg_ty(self)), buf))
      [] self.label = "Required" /\ self.merge_msg # None ->
            ThenOr(merge_new(msg_ty(self), wire_type, buf),
                   LAMBDA msg, rest : Ok(CallMerge(self.merge_msg[1], ident, msg), rest),
                   ident)
      [] self.label = "Required" /\ self.merge_msg = None /\ self.from_msg # None ->
            ThenOr(merge_new(msg_ty(self), wire_type, buf),
                   LAMBDA msg, rest : Ok(Call(self.from_msg[1], msg), rest),
                   ident)
      [] self.label = "Required" /\ self.merge_msg = None /\ self.from_msg = None ->
            encoding_message_merge(msg_ty(self), wire_type, ident, buf)
      [] self.label = "Repeated" /\ self.merge_msg # None
                                 /\ (self.as_msgs # None \/ self.to_msgs # None) ->
            ThenOr(merge_new(msg_ty(self), wire_type, buf),
                   LAMBDA msg, rest : Ok(CallMerge(self.merge_msg[1], ident, msg), rest),
                   ident)
      [] self.label = "Repeated" /\ self.from_msg # None
                                 /\ ~(self.merge_msg # None
                                      /\ (self.as_msgs # None \/ self.to_msgs # None)) ->
            ThenOr(merge_new(msg_ty(self), wire_type, buf),
                   LAMBDA msg, rest : Ok(push(ident, Call(self.from_msg[1], msg)), rest),
                   ident)
      [] self.label = "Repeated" /\ self.from_msg = None /\ self.merge_msg # None
                                 /\ self.as_msgs = None /\ self.to_msgs = None ->
            ThenOr(merge_new(msg_ty(self), wire_type, buf),
                   LAMBDA msg, rest :
                       Ok(push(ident, CallMerge(self.merge_msg[1],
                                                RustDefault(ElemTy(self.field_ty)), msg)), rest),
                   ident)
      [] self.label = "Repeated" /\ self.from_msg = None /\ self.merge_msg = None ->
            encoding_message_merge_repeated(msg_ty(self), wire_type, ident, buf)

\* Field::clear: the field after the generated statement.  A conversion is
\* handed None or a new message; without one an Optional field is None, a
\* Required message is cleared and a Vec is emptied.
message_clear(self, ident) ==
    CASE self.label = "Optional" /\ self.merge_msg # None ->
            CallMerge(self.merge_msg[1], ident, None)
      [] self.label = "Optional" /\ self.merge_msg = None /\ self.from_msg # None ->
            Call(self.from_msg[1], None)
      [] self.label = "Optional" /\ self.merge_msg = None /\ self.from_msg = None -> None
      [] self.label = "Required" /\ self.merge_msg # None ->
            CallMerge(self.merge_msg[1], ident, MessageDefault(msg_ty(self)))
      [] self.label = "Required" /\ self.merge_msg = None /\ self.from_msg # None ->
            Call(self.from_msg[1], MessageDefault(msg_ty(self)))
      [] self.label = "Required" /\ self.merge_msg = None /\ self.from_msg = None ->
            Message_clear(msg_ty(self), ident)
      [] self.label = "Repeated" /\ (self.as_msgs # None \/ self.to_msgs # None) ->
            RustDefault(self.field_ty)
      [] self.label = "Repeated" /\ self.as_msgs = None /\ self.to_msgs = None -> <<>>

\* Field::debug were to_msg to go before as_msg.
message_debug_to_first(self, ident) ==
    CASE self.label \in {"Optional", "Required"} ->
            (CASE self.to_msg # None -> Call(self.to_msg[1], ident)
               [] self.as_msg # None -> Call(self.as_msg[1], ident)
               [] OTHER -> ident)
      [] self.label = "Repeated" ->
            (CASE self.to_msgs # None -> Call(self.to_msgs[1], ident)
               [] self.as_msgs # None -> Call(self.as_msgs[1], ident)
               [] self.to_msg # None -> [i \in 1..Len(ident) |-> Call(self.to_msg[1], ident[i])]
               [] self.as_msg # None -> [i \in 1..Len(ident) |-> Call(self.as_msg[1], ident[i])]
               [] OTHER -> ident)

\* Field::debug: the value the generated expression hands to the formatter.
\* The wrapper of a Repeated field with as_msg or to_msg lists the conversion
\* of each element.
message_debug(self, ident) ==
    CASE self.label \in {"Optional", "Required"} ->
            (CASE self.as_msg # None -> Call(self.as_msg[1], ident)
               [] self.to_msg # None -> Call(self.to_msg[1], ident)
               [] OTHER -> ident)
      [] self.label = "Repeated" ->
            (CASE self.as_msgs # None -> Call(self.as_msgs[1], ident)
               [] self.to_msgs # None -> Call(self.to_msgs[1], ident)
               [] self.as_msg # None -> [i \in 1..Len(ident) |-> Call(self.as_msg[1], ident[i])]
               [] self.to_msg # None -> [i \in 1..Len(ident) |-> Call(self.to_msg[1], ident[i])]
               [] OTHER -> ident)

\* ------------------------------------------------------------------------
\* Field (prost-derive/src/field/mod.rs), the oneof of Container and the
\* messages of the model
\* ------------------------------------------------------------------------

\* The attributes of a message field: those given, none of the others.
MessageAttrs(label, tag, as_msg, as_msgs, to_msg, to_msgs, from_msg, merge_msg) ==
    [message |-> TRUE, label |-> label, tag |-> Some(tag), unknown |-> <<>>,
     as_msg |-> as_msg, as_msgs |-> as_msgs, to_msg |-> to_msg, to_msgs |-> to_msgs,
     from_msg |-> from_msg, merge_msg |-> merge_msg]

\* message::Field::new_oneof: a message field of a oneof takes no conversion
\* and no label, and is made Required.
message_new_oneof(field_ty, attrs) ==
    Then(message_new(field_ty, attrs, None),
         LAMBDA made, rest :
            IF made = None THEN Ok(None, <<>>)
            ELSE IF made[1].as_msg # None \/ made[1].to_msg # None
                    \/ made[1].from_msg # None \/ made[1].merge_msg # None
            THEN Err("oneof messages cannot have as_msg, to_msg, from_msg, or merge_msg attributes")
            ELSE IF attrs.label # None
            THEN Err("invalid attribute for oneof field")
            ELSE Ok(Some([made[1] EXCEPT !.label = "Required"]), <<>>))

\* container::Data: the variants Foo, #[prost(message, tag = "1")], and Bar,
\* #[prost(message, tag = "2")].
DataVariants ==
    <<[ident |-> "Foo",
       field |-> message_new_oneof("Foo", MessageAttrs(None, 1, None, None, None, None,
                                                       None, None)).value[1]],
      [ident |-> "Bar",
       field |-> message_new_oneof("Bar", MessageAttrs(None, 2, None, None, None, None,
                                                       None, None)).value[1]]>>

\* Container::data: #[prost(oneof = "container::Data", tags = "1, 2")].
DataField == [ty |-> "container::Data", tags |-> <<1, 2>>]

\* Bar::qux: #[prost(message, optional, boxed, tag = "1")].
QuxField ==
    message_new("Option<Qux>", MessageAttrs(Some("Optional"), 1, None, None, None, None,
                                            None, None), None).value[1]

\* The variants of the oneof a field names.
Variants(self) == CASE self.ty = "container::Data" -> DataVariants

VariantOfTag(self, tag) ==
    Variants(self)[CHOOSE i \in DOMAIN Variants(self) : Variants(self)[i].field.tag = tag]

VariantNamed(self, ident) ==
    Variants(self)[CHOOSE i \in DOMAIN Variants(self) : Variants(self)[i].ident = ident]

\* oneof::Field::encode: the live variant, if any, is encoded as its field.
oneof_encode(self, ident) ==
    IF ident = None THEN <<>>
    ELSE message_encode(VariantNamed(self, ident[1].variant).field, ident[1].value)

oneof_encoded_len(self, ident) ==
    IF ident = None THEN 0
    ELSE message_encoded_len(VariantNamed(self, ident[1].variant).field, ident[1].value)

\* oneof::Field::merge: the value of the variant of the tag is decoded into a
\* new value of the variant, which replaces the union whatever it held.
oneof_merge(self, tag, wire_type, ident, buf) ==
    ThenOr(message_merge(VariantOfTag(self, tag).field, wire_type,
                         MessageDefault(msg_ty(VariantOfTag(self, tag).field)), buf),
           LAMBDA value, rest :
               Ok(Some([variant |-> VariantOfTag(self, tag).ident, value |-> value]), rest),
           ident)

\* oneof::Field::clear: no variant is live.
oneof_clear(self, ident) == None

\* The enum Field.
\* The fields of an entry of a map of uint32 to uint32: the key with tag 1, the
\* value with tag 2.
MapKeyField ==
    scalar_new([ty |-> Some("uint32"), label |-> None, packed |-> None,
                default |-> None, tag |-> Some(1)]).value[1]

MapValueField ==
    scalar_new([ty |-> Some("uint32"), label |-> None, packed |-> None,
                default |-> None, tag |-> Some(2)]).value[1]

\* An entry, and the entry a decode starts from.
MapEntry(k, v) == [key |-> k, value |-> v]

MapEntryDefault == MapEntry(scalar_default(MapKeyField), scalar_default(MapValueField))

\* The fields of an entry on the wire.
map_entry_raw(entry) ==
    scalar_encode(MapKeyField, entry.key) \o scalar_encode(MapValueField, entry.value)

\* A map is the set of its <<key, value>> pairs, one for a key.  HashMap::insert
\* were the entry of a key that is present to stay.
map_insert_absent(pairs, k, v) ==
    IF \E p \in pairs : p[1] = k THEN pairs ELSE pairs \cup {<<k, v>>}

\* HashMap::insert: the value of a key that is present is overwritten.
map_insert(pairs, k, v) == {p \in pairs : p[1] # k} \cup {<<k, v>>}

\* The pair with the least key.
MapFirst(pairs) == CHOOSE p \in pairs : \A q \in pairs : Small(p[1]) <= Small(q[1])

RECURSIVE map_encode(_, _)
\* map::Field::encode: each entry as a length delimited message under the tag
\* of the field.
map_encode(self, pairs) ==
    IF pairs = {} THEN <<>>
    ELSE EncodeKey(self.tag, LengthDelimited)
         \o EncodeLengthDelimited(map_entry_raw(MapEntry(MapFirst(pairs)[1], MapFirst(pairs)[2])))
         \o map_encode(self, pairs \ {MapFirst(pairs)})

RECURSIVE map_encoded_len(_, _)
\* map::Field::encoded_len
map_encoded_len(self, pairs) ==
    IF pairs = {} THEN 0
    ELSE key_len(self.tag)
         + DelimitedLen(Len(map_entry_raw(MapEntry(MapFirst(pairs)[1], MapFirst(pairs)[2]))))
         + map_encoded_len(self, pairs \ {MapFirst(pairs)})

\* The field of an entry that follows a key of tag and wire_type.
map_entry_field(entry, tag, wire_type, frame) ==
    CASE tag = 1 -> Then(scalar_merge(MapKeyField, wire_type, entry.key, frame),
                         LAMBDA k, rest : Ok([entry EXCEPT !.key = k], rest))
      [] tag = 2 -> Then(scalar_merge(MapValueField, wire_type, entry.value, frame),
                         LAMBDA v, rest : Ok([entry EXCEPT !.value = v], rest))
      [] OTHER -> Then(Skip(wire_type, frame), LAMBDA passed, rest : Ok(entry, rest))

RECURSIVE map_entry_merge(_, _)
\* The entry the fields of a frame give.
map_entry_merge(entry, frame) ==
    IF frame = <<>> THEN Ok(entry, <<>>)
    ELSE Then(DecodeKey(frame),
              LAMBDA fkey, rest :
                  Then(map_entry_field(entry, fkey[1], fkey[2], rest),
                       LAMBDA merged, more : map_entry_merge(merged, more)))

\* map::Field::merge: the entry of one occurrence is decoded from the entry
\* of defaults and inserted.
map_merge(self, wire_type, pairs, frames) ==
    IF wire_type # LengthDelimited THEN Fail("UnexpectedWireType", pairs)
    ELSE ThenOr(DecodeLengthDelimited(frames),
                LAMBDA frame, rest :
                    ThenOr(map_entry_merge(MapEntryDefault, frame),
                           LAMBDA entry, none :
                               Ok(map_insert(pairs, entry.key, entry.value), rest),
                           pairs),
                pairs)

\* map::Field::clear
map_clear(self, pairs) == {}

Field_Scalar(scalar) == [variant |-> "Scalar", of |-> scalar]

Field_Message(message) == [variant |-> "Message", of |-> message]

Field_Oneof(oneof) == [variant |-> "Oneof", of |-> oneof]

\* Field::tags were a oneof to answer like the others, with one tag.
Field_tags_single(self) ==
    CASE self.variant = "Oneof" -> <<self.of.tags[1]>>
      [] OTHER -> <<self.of.tag>>

\* Field::tags: the one tag of a field, all the tags of a oneof.
Field_tags(self) ==
    CASE self.variant = "Oneof" -> self.of.tags
      [] OTHER -> <<self.of.tag>>

\* Field::encode.  The Map arm of each match of Field goes to the map codec
\* above, which SpecMap calls itself.
Field_encode(self, ident) ==
    CASE self.variant = "Scalar" -> scalar_encode(self.of, ident)
      [] self.variant = "Message" -> message_encode(self.of, ident)
      [] self.variant = "Oneof" -> oneof_encode(self.of, ident)

\* Field::merge, on the value that follows a key of tag and wire_type.
Field_merge(self, tag, wire_type, ident, buf) ==
    CASE self.variant = "Scalar" -> scalar_merge(self.of, wire_type, ident, buf)
      [] self.variant = "Message" -> message_merge(self.of, wire_type, ident, buf)
      [] self.variant = "Oneof" -> oneof_merge(self.of, tag, wire_type, ident, buf)

\* Field::encoded_len
Field_encoded_len(self, ident) ==
    CASE self.variant = "Scalar" -> scalar_encoded_len(self.of, ident)
      [] self.variant = "Message" -> message_encoded_len(self.of, ident)
      [] self.variant = "Oneof" -> oneof_encoded_len(self.of, ident)

\* Field::clear
Field_clear(self, ident) ==
    CASE self.variant = "Scalar" -> scalar_clear(self.of, ident)
      [] self.variant = "Message" -> message_clear(self.of, ident)
      [] self.variant = "Oneof" -> oneof_clear(self.of, ident)

\* Field::default: the default of the descriptor for a scalar field, that of
\* the Rust type for any other.
Field_default(self) ==
    CASE self.variant = "Scalar" -> scalar_default(self.of)
      [] self.variant = "Message" -> RustDefault(self.of.field_ty)
      [] self.variant = "Oneof" -> None

\* The field of each message but Qux, which has none; its value in a message
\* and the message with another value of it.
MessageField(ty) ==
    CASE ty \in {"Msg", "u32"} -> Field_Scalar(ValueField)
      [] ty = "Container" -> Field_Oneof(DataField)
      [] ty = "Foo" -> Field_Scalar(FooField)
      [] ty = "Bar" -> Field_Message(QuxField)

FieldOf(ty, msg) ==
    CASE ty \in {"Msg", "u32"} -> Inner(ty, msg)
      [] ty = "Container" -> msg.data
      [] ty = "Foo" -> msg.foo
      [] ty = "Bar" -> msg.qux

WithField(ty, msg, value) ==
    CASE ty \in {"Msg", "u32"} -> Outer(ty, value)
      [] ty = "Container" -> [msg EXCEPT !.data = value]
      [] ty = "Foo" -> [msg EXCEPT !.foo = value]
      [] ty = "Bar" -> [msg EXCEPT !.qux = value]

\* The match on the tag of the generated merge_field: the tags of a field.
Owns(self, tag) == \E i \in DOMAIN Field_tags(self) : Field_tags(self)[i] = tag

\* Message::encode_raw: the fields of the message, each encoded.
encode_raw(ty, msg) ==
    IF ty = "Qux" THEN <<>>
    ELSE Field_encode(MessageField(ty), FieldOf(ty, msg))

\* Message::encoded_len
message_len(ty, msg) ==
    IF ty = "Qux" THEN 0
    ELSE Field_encoded_len(MessageField(ty), FieldOf(ty, msg))

\* Message::clear: the fields of the message, each cleared.
Message_clear(ty, msg) ==
    IF ty = "Qux" THEN msg
    ELSE WithField(ty, msg, Field_clear(MessageField(ty), FieldOf(ty, msg)))

\* Message::merge_field: the field that owns the tag merges the value; the
\* value of a tag of no field is passed over, and the message is as it was.
merge_field(ty, msg, tag, wire_type, buf) ==
    IF ty # "Qux" /\ Owns(MessageField(ty), tag)
    THEN ThenOr(Field_merge(MessageField(ty), tag, wire_type, FieldOf(ty, msg), buf),
                LAMBDA value, rest : Ok(WithField(ty, msg, value), rest),
                msg)
    ELSE ThenOr(Skip(wire_type, buf), LAMBDA skipped, rest : Ok(msg, rest), msg)

\* ------------------------------------------------------------------------
\* Field construction from the items of #[prost(...)]
\* ------------------------------------------------------------------------

\* A meta item: a word (uint32, repeated, message) or a name with a literal.
\* The value of a literal is a sequence of bytes: the text of a string, the
\* 8 bytes of an integer (and of the number the digits of a tag = "n" denote),
\* one byte for a boolean.  "enum" stands for enumeration = "E".
Item(name, lit, value) == [name |-> name, lit |-> lit, value |-> value]

WordItem(name) == Item(name, "Word", <<>>)

\* The number a u32 below 2^31 stands for.
U32(v) == v[1] + 256 * v[2] + 65536 * v[3] + 16777216 * v[4]

\* set_option were it to store the value whatever the option holds: the last
\* occurrence would win, without an error.
set_option_overwrite(acc, key, value, message) ==
    Ok([acc EXCEPT ![key] = Some(value)], <<>>)

\* set_option: the option is set unless it is set already.
set_option(acc, key, value, message) ==
    IF acc[key] # None THEN Err(message) ELSE Ok([acc EXCEPT ![key] = Some(value)], <<>>)

\* set_bool
set_bool(acc, key, message) ==
    IF acc[key] THEN Err(message) ELSE Ok([acc EXCEPT ![key] = TRUE], <<>>)

\* tag_attr: a string is parsed as a u32, an integer literal is cast to u32.
tag_attr(attr) ==
    IF attr.name # "tag" THEN Ok(None, <<>>)
    ELSE CASE attr.lit = "Str" ->
                IF AllZero(SubSeq(attr.value, 5, 8)) THEN Ok(Some(U32(attr.value)), <<>>)
                ELSE Err("number too large to fit in target type")
           [] attr.lit \in {"Int", "List"} -> Ok(Some(U32(ZeroExt(attr.value, 4))), <<>>)
           [] OTHER -> Err("invalid tag attribute")

\* The texts "true", "false", "1", "nan", "E" and "p".
LitTrue == <<116, 114, 117, 101>>

LitFalse == <<102, 97, 108, 115, 101>>

LitOne == <<49>>

LitNan == <<110, 97, 110>>

LitE == <<69>>

LitPath == <<112>>

\* bool_attr: a word is true, a boolean literal is its value, a string is parsed.
bool_attr(key, attr) ==
    IF attr.name # key THEN Ok(None, <<>>)
    ELSE CASE attr.lit = "Word" -> Ok(Some(TRUE), <<>>)
           [] attr.lit \in {"List", "Bool"} /\ Len(attr.value) = 1 ->
                Ok(Some(attr.value[1] # 0), <<>>)
           [] attr.lit = "Str" /\ attr.value \in {LitTrue, LitFalse} ->
                Ok(Some(attr.value = LitTrue), <<>>)
           [] attr.lit = "Str" /\ attr.value \notin {LitTrue, LitFalse} ->
                Err("provided string was not true or false")
           [] OTHER -> Err("invalid " \o key \o " attribute")

RECURSIVE tags_list(_)
\* The tags of a list of integer literals, each cast to u32.
tags_list(items) ==
    IF items = <<>> THEN <<>>
    ELSE <<U32(SubSeq(items, 1, 4))>> \o tags_list(SubSeq(items, 9, Len(items)))

\* tags_attr: a list of integer literals, or a string of u32s.
tags_attr(attr) ==
    IF attr.name # "tags" THEN Ok(None, <<>>)
    ELSE CASE attr.lit = "List" -> Ok(Some(tags_list(attr.value)), <<>>)
           [] attr.lit = "Str" ->
                IF \A i \in 1..Len(attr.value) : i % 8 \in 1..4 \/ attr.value[i] = 0
                THEN Ok(Some(tags_list(attr.value)), <<>>)
                ELSE Err("number too large to fit in target type")
           [] OTHER -> Err("invalid tag attribute")

\* Label::from_attr
Label_from_attr(attr) ==
    IF attr.lit = "Word" /\ attr.name \in {"optional", "required", "repeated"}
    THEN Some(attr.name) ELSE None

\* DefaultValue::from_lit for the literals of the model: "1", which stands for
\* a literal of the type other than its zero value, and "nan".
DefaultValue_from_lit(ty, lit) ==
    CASE lit = LitNan /\ ty \in {"float", "double"} -> Ok(FloatNaN(rust_size(ty)), <<>>)
      [] lit = LitOne /\ ty \in {"float", "double"} -> Ok(FloatOne(rust_size(ty)), <<>>)
      [] lit = LitOne /\ ty = "bool" -> Ok(TRUE, <<>>)
      [] lit = LitOne /\ ty = "string" -> Ok(<<97>>, <<>>)
      [] lit = LitOne /\ ty = "bytes" -> Ok(<<0>>, <<>>)
      [] lit = LitOne /\ rust_size(ty) \in {4, 8} /\ ty \notin {"float", "double"} ->
            Ok(Word(1, rust_size(ty)), <<>>)
      [] OTHER -> Err("invalid default value")

\* What the loop of scalar::Field::new has found before the first item.
NoScalarAttrs ==
    [ty |-> None, label |-> None, packed |-> None, default |-> None, tag |-> None,
     unknown |-> <<>>]

\* One turn of the loop of scalar::Field::new.
scalar_attr(attr, acc) ==
    IF attr.name \in Ty /\ attr.lit = (IF attr.name = "enum" THEN "Str" ELSE "Word")
    THEN set_option(acc, "ty", attr.name, "duplicate type attributes")
    ELSE IF attr.name = "packed"
    THEN Then(bool_attr("packed", attr),
              LAMBDA p, rest : set_option(acc, "packed", p[1], "duplicate packed attributes"))
    ELSE IF attr.name = "tag"
    THEN Then(tag_attr(attr),
              LAMBDA t, rest : set_option(acc, "tag", t[1], "duplicate tag attributes"))
    ELSE IF Label_from_attr(attr) # None
    THEN set_option(acc, "label", attr.name, "duplicate label attributes")
    ELSE IF attr.name = "default"
    THEN set_option(acc, "default", attr.value, "duplicate default attributes")
    ELSE Ok([acc EXCEPT !.unknown = Append(@, attr.name)], <<>>)

RECURSIVE scalar_attrs(_, _)
\* The loop of scalar::Field::new over the items.
scalar_attrs(attrs, acc) ==
    IF attrs = <<>> THEN Ok(acc, <<>>)
    ELSE Then(scalar_attr(attrs[1], acc),
              LAMBDA set, rest : scalar_attrs(Tail(attrs), set))

\* scalar::Field::new after the loop were the default attribute not to reach
\* the match on the label.
scalar_checked_default_dropped(found) ==
    IF found.ty = None THEN Ok(None, <<>>)
    ELSE IF found.unknown # <<>> THEN Err("unknown attribute")
    ELSE IF found.tag = None THEN Err("missing tag attribute")
    ELSE scalar_new([found EXCEPT !.default = None])

\* scalar::Field::new after the loop, up to and with the default.
scalar_checked(found) ==
    IF found.ty = None THEN Ok(None, <<>>)
    ELSE IF found.unknown # <<>> THEN Err("unknown attribute")
    ELSE IF found.tag = None THEN Err("missing tag attribute")
    ELSE IF found.default = None THEN scalar_new(found)
    ELSE Then(DefaultValue_from_lit(found.ty[1], found.default[1]),
              LAMBDA default, rest : scalar_new([found EXCEPT !.default = Some(default)]))

\* scalar::Field::new
scalar_Field_new(attrs) == Then(scalar_attrs(attrs, NoScalarAttrs), LAMBDA found, rest : scalar_checked(found))

\* The match of scalar::Field::new_oneof were a field with no label to stay
\* Plain.
scalar_oneof_kind_plain(made) ==
    IF made = None THEN Ok(None, <<>>)
    ELSE CASE made[1].kind = "Plain" -> Ok(made, <<>>)
           [] made[1].kind = "Optional" -> Err("invalid optional attribute on oneof field")
           [] made[1].kind = "Required" -> Err("invalid required attribute on oneof field")
           [] made[1].kind \in {"Packed", "Repeated"} ->
                Err("invalid repeated attribute on oneof field")

\* The match of scalar::Field::new_oneof on the kind of the field made.
scalar_oneof_kind(made) ==
    IF made = None THEN Ok(None, <<>>)
    ELSE CASE made[1].kind = "Plain" -> Ok(Some([made[1] EXCEPT !.kind = "Required"]), <<>>)
           [] made[1].kind = "Optional" -> Err("invalid optional attribute on oneof field")
           [] made[1].kind = "Required" -> Err("invalid required attribute on oneof field")
           [] made[1].kind \in {"Packed", "Repeated"} ->
                Err("invalid repeated attribute on oneof field")

\* scalar::Field::new_oneof
scalar_new_oneof(attrs) ==
    Then(scalar_Field_new(attrs), LAMBDA made, rest : scalar_oneof_kind(made))

\* The six conversion attributes of a message field.
HookNames == {"as_msg", "as_msgs", "to_msg", "to_msgs", "from_msg", "merge_msg"}

\* as_msg_attr, as_msgs_attr, to_msg_attr, to_msgs_attr, from_msg_attr and
\* merge_msg_attr: the path an item `name = "path"` gives.
hook_attr(name, attr) ==
    IF attr.name = name /\ attr.lit = "Str" THEN Ok(Some(attr.value), <<>>) ELSE Ok(None, <<>>)

\* What the loop of message::Field::new has found before the first item.
NoMessageAttrs ==
    [message |-> FALSE, boxed |-> FALSE, label |-> None, tag |-> None, unknown |-> <<>>,
     as_msg |-> None, as_msgs |-> None, to_msg |-> None, to_msgs |-> None,
     from_msg |-> None, merge_msg |-> None]

\* Label, as the descriptor of a message field names it.
LabelOf(word) ==
    CASE word = "optional" -> "Optional"
      [] word = "required" -> "Required"
      [] word = "repeated" -> "Repeated"

\* One turn of the loop of message::Field::new.
message_attr(attr, acc) ==
    IF attr.name = "message" /\ attr.lit = "Word"
    THEN set_bool(acc, "message", "duplicate message attribute")
    ELSE IF attr.name = "boxed" /\ attr.lit = "Word"
    THEN set_bool(acc, "boxed", "duplicate boxed attribute")
    ELSE IF attr.name = "tag"
    THEN Then(tag_attr(attr),
              LAMBDA t, rest : set_option(acc, "tag", t[1], "duplicate tag attributes"))
    ELSE IF Label_from_attr(attr) # None
    THEN set_option(acc, "label", LabelOf(attr.name), "duplicate label attributes")
    ELSE IF attr.name \in HookNames /\ hook_attr(attr.name, attr).value # None
    THEN set_option(acc, attr.name, hook_attr(attr.name, attr).value[1],
                    "duplicate " \o attr.name \o " attributes")
    ELSE Ok([acc EXCEPT !.unknown = Append(@, attr.name)], <<>>)

RECURSIVE message_attrs(_, _)
\* The loop of message::Field::new over the items.
message_attrs(attrs, acc) ==
    IF attrs = <<>> THEN Ok(acc, <<>>)
    ELSE Then(message_attr(attrs[1], acc),
              LAMBDA set, rest : message_attrs(Tail(attrs), set))

\* message::Field::new were the inferred tag to come before the tag attribute.
message_Field_new_inferred_first(field_ty, attrs, inferred_tag) ==
    Then(message_attrs(attrs, NoMessageAttrs),
         LAMBDA found, rest :
            message_new(field_ty,
                        [found EXCEPT !.tag = IF inferred_tag # None THEN inferred_tag ELSE @],
                        inferred_tag))

\* message::Field::new
message_Field_new(field_ty, attrs, inferred_tag) ==
    Then(message_attrs(attrs, NoMessageAttrs),
         LAMBDA found, rest : message_new(field_ty, found, inferred_tag))

\* message::Field::new_oneof: the field type of a variant is not looked at.
message_Field_new_oneof(attrs) ==
    Then(message_attrs(attrs, NoMessageAttrs),
         LAMBDA found, rest : message_new_oneof("", found))

\* What the loops of map::Field::new and oneof::Field::new have found before the
\* first item.
NoKeywordAttrs == [ty |-> None, tag |-> None, unknown |-> <<>>]

\* One turn of the loop of map::Field::new.
map_attr(attr, acc) ==
    IF attr.name = "map" /\ attr.lit = "Str"
    THEN set_option(acc, "ty", attr.value, "duplicate map type attribute")
    ELSE IF attr.name = "tag"
    THEN Then(tag_attr(attr),
              LAMBDA t, rest : set_option(acc, "tag", t[1], "duplicate tag attributes"))
    ELSE Ok([acc EXCEPT !.unknown = Append(@, attr.name)], <<>>)

RECURSIVE map_attrs(_, _)
\* The loop of map::Field::new over the items.
map_attrs(attrs, acc) ==
    IF attrs = <<>> THEN Ok(acc, <<>>)
    ELSE Then(map_attr(attrs[1], acc), LAMBDA set, rest : map_attrs(Tail(attrs), set))

\* map::Field::new after the loop.
map_checked(found) ==
    IF found.ty = None THEN Ok(None, <<>>)
    ELSE IF found.unknown # <<>> THEN Err("unknown attribute for map field")
    ELSE IF found.tag = None THEN Err("map field is missing a tag attribute")
    ELSE Ok(Some([map_ty |-> found.ty[1], tag |-> found.tag[1]]), <<>>)

\* map::Field::new
map_new(attrs) == Then(map_attrs(attrs, NoKeywordAttrs), LAMBDA found, rest : map_checked(found))

\* map::Field::new_oneof
map_new_oneof(attrs) == map_new(attrs)

\* One turn of the loop of oneof::Field::new.
oneof_attr(attr, acc) ==
    IF attr.name = "oneof" /\ attr.lit = "Str"
    THEN set_option(acc, "ty", attr.value, "duplicate oneof attribute")
    ELSE IF attr.name = "tags"
    THEN Then(tags_attr(attr),
              LAMBDA t, rest : set_option(acc, "tag", t[1], "duplicate tags attributes"))
    ELSE Ok([acc EXCEPT !.unknown = Append(@, attr.name)], <<>>)

RECURSIVE oneof_attrs(_, _)
\* The loop of oneof::Field::new over the items.
oneof_attrs(attrs, acc) ==
    IF attrs = <<>> THEN Ok(acc, <<>>)
    ELSE Then(oneof_attr(attrs[1], acc), LAMBDA set, rest : oneof_attrs(Tail(attrs), set))

\* oneof::Field::new after the loop.
oneof_checked(found) ==
    IF found.ty = None THEN Ok(None, <<>>)
    ELSE IF found.unknown # <<>> THEN Err("unknown attribute for oneof field")
    ELSE IF found.tag = None THEN Err("oneof field is missing a tags attribute")
    ELSE Ok(Some([oneof_ty |-> found.ty[1], tags |-> found.tag[1]]), <<>>)

\* oneof::Field::new
oneof_new(attrs) ==
    Then(oneof_attrs(attrs, NoKeywordAttrs), LAMBDA found, rest : oneof_checked(found))

Field_Map(map) == [variant |-> "Map", of |-> map]

\* A oneof field as the macro sees it: the type of the union and its tags.
Field_OneofDecl(oneof) == [variant |-> "Oneof", of |-> oneof]

\* Field::new were it to try message::Field::new before scalar::Field::new.
Field_new_message_first(field_ty, attrs, inferred_tag) ==
    Then(message_Field_new(field_ty, attrs, inferred_tag), LAMBDA message, r1 :
      IF message # None THEN Ok(Some(Field_Message(message[1])), <<>>)
      ELSE Then(scalar_Field_new(attrs), LAMBDA scalar, r2 :
        IF scalar # None THEN Ok(Some(Field_Scalar(scalar[1])), <<>>)
        ELSE Then(map_new(attrs), LAMBDA map, r3 :
          IF map # None THEN Ok(Some(Field_Map(map[1])), <<>>)
          ELSE Then(oneof_new(attrs), LAMBDA oneof, r4 :
            IF oneof # None THEN Ok(Some(Field_OneofDecl(oneof[1])), <<>>)
            ELSE Err("no type attribute")))))

\* Field::new: the kinds are tried in the order scalar, message, map, oneof.
\* The type of the field and the tag inferred from its position are handed to
\* message::Field::new.
Field_new(field_ty, attrs, inferred_tag) ==
    Then(scalar_Field_new(attrs), LAMBDA scalar, r1 :
      IF scalar # None THEN Ok(Some(Field_Scalar(scalar[1])), <<>>)
      ELSE Then(message_Field_new(field_ty, attrs, inferred_tag), LAMBDA message, r2 :
        IF message # None THEN Ok(Some(Field_Message(message[1])), <<>>)
        ELSE Then(map_new(attrs), LAMBDA map, r3 :
          IF map # None THEN Ok(Some(Field_Map(map[1])), <<>>)
          ELSE Then(oneof_new(attrs), LAMBDA oneof, r4 :
            IF oneof # None THEN Ok(Some(Field_OneofDecl(oneof[1])), <<>>)
            ELSE Err("no type attribute")))))

\* Field::new_oneof: the kinds a variant of a oneof may have, in the order
\* scalar, message, map.
Field_new_oneof(attrs) ==
    Then(scalar_new_oneof(attrs), LAMBDA scalar, r1 :
      IF scalar # None THEN Ok(Some(Field_Scalar(scalar[1])), <<>>)
      ELSE Then(message_Field_new_oneof(attrs), LAMBDA message, r2 :
        IF message # None THEN Ok(Some(Field_Message(message[1])), <<>>)
        ELSE Then(map_new_oneof(attrs), LAMBDA map, r3 :
          IF map # None THEN Ok(Some(Field_Map(map[1])), <<>>)
          ELSE Err("no type attribute for oneof field"))))

\* ------------------------------------------------------------------------
\* Spec: one scalar field of a message, its owner and a receiver
\* ------------------------------------------------------------------------

\* The elements and occurrences a behaviour sends at most.
MaxWire == 2

VARIABLES
    field,    \* the field descriptor, fixed at construction
    ident,    \* the field in the sender's message
    cleared,  \* whether the sender has cleared its message
    buf,      \* the bytes sent and not yet decoded
    target,   \* the field in the receiver's message, a new message at first
    unhooked, \* the field in a receiver whose schema has no conversions (SpecMsg)
    err,      \* the error that ended the receiver's decode, "" if none
    log       \* what was encoded (in SpecCodec, and decoded) so far: the value,
              \* the bytes and the encoded_len

vars == <<field, ident, cleared, buf, target, unhooked, err, log>>

ScalarTags == {1, 16}

\* The attribute sets Field::new is given: every type, label, packed and
\* default attribute, with a tag.
ScalarAttrs ==
    UNION {[ty : {Some(t)}, label : {None, Some("optional"), Some("required"), Some("repeated")},
            packed : {None, Some(TRUE), Some(FALSE)},
            default : {None} \cup {Some(d) : d \in ExplicitDefaults(t)},
            tag : {Some(n) : n \in ScalarTags}] : t \in Ty}

\* Every descriptor Field::new constructs.
ScalarFields == {scalar_new(a).value[1] : a \in {x \in ScalarAttrs : scalar_new(x).ok}}

IsRepeated(f) == f.kind \in {"Repeated", "Packed"}

\* The elements of a repeated field in the model.
ElementValues(ty) ==
    CASE ty \in {"float", "double"} -> {FloatOne(rust_size(ty)), FloatNaN(rust_size(ty))}
      [] ty = "bool" -> {FALSE, TRUE}
      [] ty = "string" -> {<<>>, <<97>>}
      [] ty = "bytes" -> {<<>>, <<255, 1>>}
      [] OTHER -> {Word(1, rust_size(ty)), Word(-1, rust_size(ty))}

\* The values a field of descriptor f holds, a repeated one up to n elements.
FieldValues(f, n) ==
    CASE f.kind \in {"Plain", "Required"} -> ScalarValues(f.ty)
      [] f.kind = "Optional" -> {None} \cup {Some(v) : v \in ScalarValues(f.ty)}
      [] IsRepeated(f) -> UNION {[1..k -> ElementValues(f.ty)] : k \in 0..n}

\* What an encode adds to the bound MaxWire.
Cost(f, v) == IF IsRepeated(f) /\ v # <<>> THEN Len(v) ELSE 1

Sent == Sum([i \in 1..Len(log) |-> Cost(field, log[i].value)])

\* The receiver has not started to decode: all that was sent is in the buffer.
Unread == Len(buf) = Sum([i \in 1..Len(log) |-> Len(log[i].out)])

\* The layouts a writer of the same field may use: the descriptor's own, and
\* for a repeated numeric field the packed and the unpacked one.
Layouts(f) ==
    IF IsRepeated(f) /\ is_numeric(f.ty) THEN {"Repeated", "Packed"} ELSE {f.kind}

Init ==
    /\ field \in ScalarFields
    /\ ident = scalar_default(field)
    /\ cleared = FALSE
    /\ target = scalar_default(field)
    /\ unhooked = scalar_default(field)
    /\ buf = <<>>
    /\ err = ""
    /\ log = <<>>

\* The len bytes out of an encode are in the buffer, and on record.
Written(v, layout, len, out) ==
    /\ buf' = buf \o out
    /\ log' = Append(log, [value |-> v, layout |-> layout, out |-> out, len |-> len])

\* The owner sets the field to v and encodes the message: encoded_len, then
\* encode into the buffer.  A writer of another version of the schema uses the
\* other layout of a repeated numeric field.  The stream is written before the
\* receiver decodes it.
Encode(v, layout) ==
    /\ ~cleared
    /\ Unread
    /\ err = ""
    /\ Sent + Cost(field, v) <= MaxWire
    /\ ident' = v
    /\ Written(v, layout, scalar_encoded_len([field EXCEPT !.kind = layout], v),
               scalar_encode([field EXCEPT !.kind = layout], v))
    /\ UNCHANGED <<field, cleared, target, unhooked, err>>

\* The receiver after the merge call that returned r.
Merged(r) ==
    /\ target' = r.value
    /\ buf' = r.rest
    /\ err' = r.err

\* The receiver reads one key and merges the value that follows it (the stream
\* holds the keys of this field only); a failure ends the decode.
Merge ==
    /\ buf # <<>>
    /\ Merged(ThenOr(DecodeKey(buf),
                     LAMBDA key, rest : scalar_merge(field, key[2], target, rest),
                     target))
    /\ UNCHANGED <<field, ident, cleared, unhooked, log>>

\* The owner clears its message, once everything sent was received.
Clear ==
    /\ ~cleared
    /\ buf = <<>>
    /\ ident' = scalar_clear(field, ident)
    /\ cleared' = TRUE
    /\ UNCHANGED <<field, buf, target, unhooked, err, log>>

Next ==
    \/ \E layout \in Layouts(field) : \E v \in FieldValues(field, MaxWire) : Encode(v, layout)
    \/ Merge
    \/ Clear

Spec == Init /\ [][Next]_vars

\* ------------------------------------------------------------------------
\* Properties of the scalar field
\* ------------------------------------------------------------------------

\* Everything sent was received without error.
Received == buf = <<>> /\ err = ""

\* C1: round trip.  For a scalar field of any label and any value v, merging
\* the encoding of v into a new message gives v back: merge(default(),
\* encode(v)) == v.
C1_RoundTrip ==
    (Len(log) = 1 /\ log[1].layout = field.kind /\ Received) => target = log[1].value

\* C2: default elision.  A Plain field whose value is its default encodes to
\* no bytes and has encoded_len 0, a Required field holding the same default is
\* encoded with a length that is not zero; for every type and configured
\* default.
C2_DefaultElision ==
    \A i \in 1..Len(log) :
        log[i].value = scalar_default(field) =>
            /\ field.kind = "Plain" => log[i].out = <<>> /\ log[i].len = 0
            /\ field.kind = "Required" => log[i].out # <<>> /\ log[i].len > 0

\* The elements sent so far, in the order sent.
SentValues == Concat([i \in 1..Len(log) |-> log[i].value])

\* C5: packed and unpacked interoperate.  A repeated field accepts every
\* record of either layout without error, whatever layout it declares, and
\* once all records are decoded it holds the elements of all of them in the
\* order sent: each record was appended to what the earlier ones left.
C5_PackedInterop ==
    IsRepeated(field) => /\ err = ""
                         /\ buf = <<>> => target = SentValues

\* A field declared unpacked has decoded a packed record and then an unpacked
\* one, and holds the elements of both.
C5_Witness ==
    /\ field.kind = "Repeated"
    /\ Len(log) = 2
    /\ log[1].layout = "Packed" /\ log[1].value # <<>>
    /\ log[2].layout = "Repeated" /\ log[2].value # <<>>
    /\ Received
    /\ target = log[1].value \o log[2].value

\* C9: presence of an Optional scalar.  An absent value is skipped on encode
\* and an empty buffer decodes to absent; a present value, also one equal to
\* the type default or to the configured default, is always written and
\* decodes as present with that value.
C9_OptionalPresence ==
    field.kind = "Optional" =>
        /\ \A i \in 1..Len(log) :
              /\ log[i].value = None <=> log[i].out = <<>>
              /\ log[i].value = None <=> log[i].len = 0
        /\ (Received /\ \A i \in 1..Len(log) : log[i].value = None) => target = None
        /\ (Received /\ log # <<>> /\ log[Len(log)].value # None) =>
              target = log[Len(log)].value

\* An Optional field with a configured default was sent present with that
\* default after being sent absent, and the receiver holds it present.
C9_Witness ==
    /\ field.kind = "Optional"
    /\ field.default # TypeDefault(field.ty)
    /\ Len(log) = 2
    /\ log[1].value = None
    /\ log[2].value = Some(field.default)
    /\ Received
    /\ target = Some(field.default)

\* C10: clear of a Plain or Required scalar.  After clear the field holds its
\* default: the configured default if there is one, else the zero value of the
\* type; a string or bytes field included.
C10_ClearResets ==
    (cleared /\ field.kind \in {"Plain", "Required"}) => ident = scalar_default(field)

\* ------------------------------------------------------------------------
\* SpecMsg: one message field, written and read with and without conversions
\* ------------------------------------------------------------------------

\* The fields declared: those of WithMsgFns as message fields, one for each
\* other arm of Field::encode and Field::merge, and the fields without
\* conversions.
MessageDecls ==
    {<<"(u32, String)", MessageAttrs(Some("Required"), 1, Some("get_tuple_left"), None,
                                     None, None, None, Some("set_tuple_left"))>>,
     <<"Vec<(u32, String)>", MessageAttrs(Some("Repeated"), 2, Some("get_tuple_left"), None,
                                          None, None, None, Some("set_tuple_left"))>>,
     <<"Option<u32>", MessageAttrs(Some("Optional"), 4, None, None,
                                   Some("none"), None, Some("id"), None)>>,
     <<"Vec<Msg>", MessageAttrs(Some("Repeated"), 6, None, None,
                                Some("msg_field"), None, Some("new_msg"), None)>>,
     <<"Option<Msg>", MessageAttrs(Some("Required"), 7, Some("as_ref_unwrap"), None,
                                   None, None, Some("Option::Some"), None)>>,
     <<"Vec<Option<Msg>>", MessageAttrs(Some("Repeated"), 8, Some("as_ref_unwrap"), None,
                                        None, None, Some("Option::Some"), None)>>,
     <<"Option<Msg>", MessageAttrs(None, 9, Some("Option::as_ref"), None,
                                   None, None, Some("id"), None)>>,
     <<"Vec<Msg>", MessageAttrs(Some("Repeated"), 10, None, Some("Vec::as_slice"),
                                None, None, None, Some("Vec::push"))>>,
     <<"Option<Msg>", MessageAttrs(Some("Optional"), 11, None, None, None, None, None, None)>>,
     <<"Msg", MessageAttrs(Some("Required"), 12, None, None, None, None, None, None)>>,
     <<"Vec<Msg>", MessageAttrs(Some("Repeated"), 16, None, None, None, None, None, None)>>}

MessageFields == {message_new(d[1], d[2], None).value[1] : d \in MessageDecls}

\* The uint32 values of the messages.
MsgWords == {Word(0, 4), Word(1, 4), Word(300, 4)}

RECURSIVE TyValues(_, _)
\* The values of a Rust type, a Vec up to n elements.
TyValues(ty, n) ==
    CASE ty = "Msg" -> {[field |-> w] : w \in MsgWords}
      [] ty = "u32" -> MsgWords
      [] ty = "(u32, String)" -> MsgWords \X {<<>>, <<97>>}
      [] ty \in {"Option<Msg>", "Option<u32>"} ->
            {None} \cup {Some(x) : x \in TyValues(ElemTy(ty), n)}
      [] OTHER -> UNION {[1..k -> TyValues(ElemTy(ty), n)] : k \in 0..n}

\* as_ref_unwrap panics on None: a field converted by it is encoded only if it
\* holds, or all its elements hold, a message.
Encodable(f, v) ==
    f.as_msg = Some("as_ref_unwrap") =>
        IF f.label = "Repeated" THEN \A i \in 1..Len(v) : v[i] # None ELSE v # None

\* The same field in the schema without conversions (WithoutMsgFns): it holds
\* the messages themselves.
HookFree(f) ==
    [f EXCEPT !.as_msg = None, !.as_msgs = None, !.to_msg = None, !.to_msgs = None,
              !.from_msg = None, !.merge_msg = None,
              !.field_ty = CASE f.label = "Optional" ->
                                    IF msg_ty(f) = "Msg" THEN "Option<Msg>" ELSE "Option<u32>"
                             [] f.label = "Required" -> msg_ty(f)
                             [] f.label = "Repeated" ->
                                    IF msg_ty(f) = "Msg" THEN "Vec<Msg>" ELSE "Vec<u32>"]

\* The value of the field of WithoutMsgFns that corresponds to the value v of
\* the field f of WithMsgFns, as msg_fns() sets it.
without_msg_fns(f, v) ==
    CASE f.as_msg \in {Some("get_tuple_left"), Some("as_ref_unwrap")} ->
            IF f.label = "Repeated" THEN [i \in 1..Len(v) |-> v[i][1]] ELSE v[1]
      [] f.to_msg = Some("none") -> None
      [] f.to_msg = Some("msg_field") -> [i \in 1..Len(v) |-> v[i].field]
      [] OTHER -> v

MsgCost(f, v) == IF f.label = "Repeated" /\ v # <<>> THEN Len(v) ELSE 1

MsgSent == Sum([i \in 1..Len(log) |-> MsgCost(field, log[i].value)])

InitMsg ==
    /\ field \in MessageFields
    /\ ident = RustDefault(field.field_ty)
    /\ cleared = FALSE
    /\ target = RustDefault(field.field_ty)
    /\ unhooked = RustDefault(HookFree(field).field_ty)
    /\ buf = <<>>
    /\ err = ""
    /\ log = <<>>

\* Both schemas have encoded the value; the bytes of one are in the buffer.
WrittenMsg(v, hooked, with, without) ==
    /\ buf' = buf \o (IF hooked THEN with ELSE without)
    /\ log' = Append(log, [value |-> v, wire |-> without_msg_fns(field, v), hooked |-> hooked,
                           out |-> IF hooked THEN with ELSE without,
                           with |-> with, without |-> without,
                           len_with |-> message_encoded_len(field, v),
                           len_without |-> message_encoded_len(HookFree(field),
                                                               without_msg_fns(field, v))])

\* The owner sets the field to v; the message is encoded by the schema with
\* the conversions (hooked) or by the schema without, which holds the
\* corresponding messages.
EncodeMsg(v, hooked) ==
    /\ Encodable(field, v)
    /\ Unread
    /\ err = ""
    /\ MsgSent + MsgCost(field, v) <= MaxWire
    /\ ident' = v
    /\ WrittenMsg(v, hooked, message_encode(field, v),
                  message_encode(HookFree(field), without_msg_fns(field, v)))
    /\ UNCHANGED <<field, cleared, target, unhooked, err>>

\* Both receivers after their merge calls returned with and without.
MergedMsg(with, without) ==
    /\ target' = with.value
    /\ unhooked' = without.value
    /\ buf' = with.rest
    /\ err' = IF with.ok THEN without.err ELSE with.err

\* Each receiver reads the key and merges the value that follows it.
MergeMsg ==
    /\ buf # <<>>
    /\ MergedMsg(ThenOr(DecodeKey(buf),
                        LAMBDA key, rest : message_merge(field, key[2], target, rest),
                        target),
                 ThenOr(DecodeKey(buf),
                        LAMBDA key, rest : message_merge(HookFree(field), key[2], unhooked, rest),
                        unhooked))
    /\ UNCHANGED <<field, ident, cleared, log>>

NextMsg ==
    \/ \E hooked \in BOOLEAN : \E v \in TyValues(field.field_ty, MaxWire) : EncodeMsg(v, hooked)
    \/ MergeMsg

SpecMsg == InitMsg /\ [][NextMsg]_vars

\* ------------------------------------------------------------------------
\* Properties of the message field
\* ------------------------------------------------------------------------

Converting(f) == f # HookFree(f)

\* C3: conversions are transparent on the wire.  A field with as_msg/to_msg
\* (as_msgs/to_msgs) and from_msg/merge_msg conversions, and the field without
\* conversions that holds the corresponding messages, encode to the same bytes
\* and report the same encoded_len, for each label.
C3_HooksWireTransparent ==
    \A i \in 1..Len(log) :
        /\ log[i].with = log[i].without
        /\ log[i].len_with = log[i].len_without

\* The Vec<Msg> converted element by element with to_msg held two messages and
\* was encoded to the bytes that the Vec<u32> of WithoutMsgFns encodes to.
C3_Witness ==
    /\ field.to_msg = Some("msg_field")
    /\ Len(log) = 1
    /\ log[1].hooked
    /\ Len(log[1].value) = 2
    /\ log[1].out # <<>>
    /\ log[1].out = log[1].without

\* C4: decoding is consistent with the conversions in both directions.  From
\* the bytes of one message of either schema, the schema with conversions
\* decodes a field whose corresponding messages are those sent and the schema
\* without decodes those messages; a field whose to-wire conversion returns
\* None is not written and both schemas decode it absent.
C4_HookConsistentDecode ==
    /\ (Len(log) = 1 /\ Received) =>
            /\ without_msg_fns(field, target) = log[1].wire
            /\ unhooked = log[1].wire
    /\ field.label = "Optional" =>
            /\ \A i \in 1..Len(log) : log[i].wire = None => log[i].out = <<>>
            /\ (Received /\ \A i \in 1..Len(log) : log[i].wire = None) =>
                    /\ without_msg_fns(field, target) = None
                    /\ unhooked = None

\* The Vec<Option<Msg>> converted with as_ref_unwrap and Option::Some has
\* decoded the two messages that the schema without conversions wrote.
C4_Witness ==
    /\ field.as_msg = Some("as_ref_unwrap")
    /\ field.label = "Repeated"
    /\ Len(log) = 1
    /\ ~log[1].hooked
    /\ Len(log[1].wire) = 2
    /\ Received
    /\ target = [i \in 1..2 |-> Some(log[1].wire[i])]

\* The occurrences of the field sent so far: an Optional field that holds
\* None (or converts to it) is not one.
RECURSIVE Occurrences(_, _)
Occurrences(f, entries) ==
    IF entries = <<>> THEN <<>>
    ELSE LET rest == Occurrences(f, Tail(entries))
             wire == entries[1].wire
         IN  CASE f.label = "Optional" -> (IF wire = None THEN <<>> ELSE <<wire[1]>>) \o rest
               [] f.label = "Required" -> <<wire>> \o rest
               [] f.label = "Repeated" -> wire \o rest

\* The messages of a field that is not Optional, or Optional and not None.
Held(f, v) ==
    CASE f.label = "Optional" -> v
      [] f.label = "Required" -> <<v>>
      [] f.label = "Repeated" -> v

\* C8, as stated: a message field that is Optional or Required holds after
\* the merge of several occurrences the content of the last occurrence only,
\* each having been decoded into a new default message.
C8_OverwriteOnMerge ==
    (field.label \in {"Optional", "Required"} /\ Received
     /\ Occurrences(field, log) # <<>>) =>
        LET last == Occurrences(field, log)[Len(Occurrences(field, log))]
        IN  /\ Held(field, without_msg_fns(field, target)) = <<last>>
            /\ Held(field, unhooked) = <<last>>

RECURSIVE MergedAll(_, _, _)
\* The message after the occurrences were merged into it one after another:
\* an occurrence overwrites the uint32 field if it carries it, that is if the
\* field is not at its default in the occurrence.
MergedAll(ty, msg, occurrences) ==
    IF occurrences = <<>> THEN msg
    ELSE MergedAll(ty,
                   IF Inner(ty, occurrences[1]) # scalar_default(ValueField)
                   THEN occurrences[1] ELSE msg,
                   Tail(occurrences))

\* C8, amended: an Optional or Required message field without a from_msg or
\* merge_msg conversion merges each occurrence into the message it holds (an
\* Optional field that holds none into a new one), so what an earlier
\* occurrence set and a later one does not carry stays; with such a conversion
\* each occurrence is decoded into a new default message and the field holds
\* the last occurrence only; a Repeated field holds all occurrences, appended
\* in order.
C8_MergeOrOverwrite ==
    (Received /\ Occurrences(field, log) # <<>>) =>
        LET sent   == Occurrences(field, log)
            merged == <<MergedAll(msg_ty(field), MessageDefault(msg_ty(field)), sent)>>
        IN  /\ Held(field, unhooked) = IF field.label = "Repeated" THEN sent ELSE merged
            /\ Held(field, without_msg_fns(field, target)) =
                    CASE field.label = "Repeated" -> sent
                      [] field.from_msg # None \/ field.merge_msg # None -> <<sent[Len(sent)]>>
                      [] OTHER -> merged

\* A Required field without conversions has merged an occurrence that sets
\* the uint32 field and then one that leaves it at its default, and holds the
\* first.
C8_Witness ==
    /\ field.label = "Required"
    /\ ~Converting(field)
    /\ Len(log) = 2
    /\ log[1].wire.field # scalar_default(ValueField)
    /\ log[2].wire.field = scalar_default(ValueField)
    /\ Received
    /\ target = log[1].wire

\* ------------------------------------------------------------------------
\* SpecCodec: Container messages and records of a later schema in one stream,
\* decoded by Container and encoded again
\* ------------------------------------------------------------------------

\* The values of Container a sender encodes.
ContainerValues ==
    {[data |-> None]}
    \cup {[data |-> Some([variant |-> "Foo", value |-> [foo |-> s]])] : s \in {<<>>, <<97>>}}
    \cup {[data |-> Some([variant |-> "Bar", value |-> [qux |-> q]])] : q \in {None, Some(Qux)}}

\* Fields that a later schema of Container adds with tag 3, one of each wire
\* type; Container has no field of that tag.
LaterFields ==
    {scalar_new([ty |-> Some(t), label |-> Some("required"), packed |-> None,
                 default |-> None, tag |-> Some(3)]).value[1] :
        t \in {"uint32", "fixed64", "string", "fixed32"}}

\* The receiver has decoded the stream.
Decoded == log # <<>> /\ log[Len(log)].op \in {"decode", "encode again"}

InitCodec ==
    /\ field = MessageField("Container")
    /\ ident = FieldOf("Container", MessageDefault("Container"))
    /\ cleared = FALSE
    /\ target = FieldOf("Container", MessageDefault("Container"))
    /\ unhooked = None
    /\ buf = <<>>
    /\ err = ""
    /\ log = <<>>

\* The bytes out were written to the stream.
WrittenCodec(op, value, out, len) ==
    /\ ~Decoded
    /\ Len(log) < MaxWire
    /\ buf' = buf \o out
    /\ log' = Append(log, [op |-> op, value |-> value, out |-> out, len |-> len])

\* A sender sets data and encodes its Container to the stream.
EncodeContainer(msg) ==
    /\ ident' = FieldOf("Container", msg)
    /\ WrittenCodec("encode", FieldOf("Container", msg), encode_raw("Container", msg),
                    message_len("Container", msg))
    /\ UNCHANGED <<field, cleared, target, unhooked, err>>

\* A sender of the later schema writes the field that Container lacks.
EncodeLater(later, value) ==
    /\ WrittenCodec("later", value, scalar_encode(later, value),
                    scalar_encoded_len(later, value))
    /\ UNCHANGED <<field, ident, cleared, target, unhooked, err>>

\* The receiver's Container after merge returned r.
DecodedAs(r) ==
    /\ target' = FieldOf("Container", r.value)
    /\ buf' = r.rest
    /\ err' = r.err
    /\ log' = Append(log, [op |-> "decode", value |-> FieldOf("Container", r.value),
                           out |-> <<>>, len |-> 0])

\* Message::decode: a new Container merges the whole stream.
DecodeContainer ==
    /\ log # <<>>
    /\ ~Decoded
    /\ DecodedAs(merge_loop("Container", MessageDefault("Container"), buf))
    /\ UNCHANGED <<field, ident, cleared, unhooked>>

\* The receiver encodes the Container it decoded.
EncodeAgain ==
    /\ log # <<>>
    /\ log[Len(log)].op = "decode"
    /\ err = ""
    /\ log' = Append(log, [op |-> "encode again", value |-> target,
                           out |-> encode_raw("Container",
                                              WithField("Container",
                                                        MessageDefault("Container"), target)),
                           len |-> message_len("Container",
                                               WithField("Container",
                                                         MessageDefault("Container"), target))])
    /\ UNCHANGED <<field, ident, cleared, buf, target, unhooked, err>>

NextCodec ==
    \/ \E msg \in ContainerValues : EncodeContainer(msg)
    \/ \E later \in LaterFields : \E value \in ScalarValues(later.ty) : EncodeLater(later, value)
    \/ DecodeContainer
    \/ EncodeAgain

SpecCodec == InitCodec /\ [][NextCodec]_vars

\* ------------------------------------------------------------------------
\* Properties of the message codec
\* ------------------------------------------------------------------------

\* The occurrences of the oneof in the stream, in stream order.
OneofSent == SelectSeq(log, LAMBDA e : e.op = "encode" /\ e.value # None)

\* The records of the later schema in the stream, in stream order.
LaterSent == SelectSeq(log, LAMBDA e : e.op = "later")

\* C6: oneof last write wins.  After the decode of a stream that holds
\* occurrences of several tags of the oneof, in any order and among other
\* records, the union holds the variant of the last occurrence in the stream,
\* with the value of that occurrence and nothing of an earlier one.
C6_OneofLastWriteWins ==
    (Decoded /\ OneofSent # <<>>) =>
        /\ err = ""
        /\ target = OneofSent[Len(OneofSent)].value

\* Foo with a string, then Bar, were decoded from one stream: data is the Bar.
C6_Witness ==
    /\ Decoded
    /\ Len(OneofSent) = 2
    /\ OneofSent[1].value[1].variant = "Foo"
    /\ OneofSent[1].value[1].value.foo # <<>>
    /\ OneofSent[2].value[1].variant = "Bar"
    /\ target # None
    /\ target[1].variant = "Bar"

RECURSIVE HoldsInOrder(_, _)
\* out holds each of the records whole, one after the other in their order.
HoldsInOrder(out, records) ==
    \/ records = <<>>
    \/ \E i \in 1..(Len(out) - Len(records[1]) + 1) :
            /\ SubSeq(out, i, i + Len(records[1]) - 1) = records[1]
            /\ HoldsInOrder(SubSeq(out, i + Len(records[1]), Len(out)), Tail(records))

\* C7: unknown fields are preserved.  When a stream with records of tags
\* that the schema lacks is decoded and the message encoded again, the output
\* holds the bytes of every such record, unchanged and in their order.
C7_UnknownFieldsPreserved ==
    (log # <<>> /\ log[Len(log)].op = "encode again") =>
        HoldsInOrder(log[Len(log)].out, [i \in 1..Len(LaterSent) |-> LaterSent[i].out])

\* ------------------------------------------------------------------------
\* SpecClear: one field of any kind, assigned by its owner and cleared
\* ------------------------------------------------------------------------

\* The fields: every scalar field and every message field of the model.
ClearFields ==
    {Field_Scalar(f) : f \in ScalarFields} \cup {Field_Message(f) : f \in MessageFields}

\* The values the owner gives a field.
ClearValues(self) ==
    CASE self.variant = "Scalar" -> FieldValues(self.of, MaxWire)
      [] self.variant = "Message" -> TyValues(self.of.field_ty, MaxWire)

InitClear ==
    /\ field \in ClearFields
    /\ ident = Field_default(field)
    /\ cleared = FALSE
    /\ target = Field_default(field)
    /\ unhooked = None
    /\ buf = <<>>
    /\ err = ""
    /\ log = <<>>

\* The owner assigns the field.
Assign(value) ==
    /\ ident' = value
    /\ cleared' = FALSE
    /\ UNCHANGED <<field, buf, target, unhooked, err, log>>

\* The owner clears the message, once or again; target keeps what the field
\* held before the call.
ClearField ==
    /\ ident' = Field_clear(field, ident)
    /\ target' = ident
    /\ cleared' = TRUE
    /\ UNCHANGED <<field, buf, unhooked, err, log>>

NextClear ==
    \/ \E value \in ClearValues(field) : Assign(value)
    \/ ClearField

SpecClear == InitClear /\ [][NextClear]_vars

\* ------------------------------------------------------------------------
\* Properties of clear
\* ------------------------------------------------------------------------

\* The field is Optional and has no conversion.
IsOptionalField(self) ==
    \/ self.variant = "Scalar" /\ self.of.kind = "Optional"
    \/ self.variant = "Message" /\ self.of.label = "Optional" /\ ~Converting(self.of)

IsRepeatedField(self) ==
    \/ self.variant = "Scalar" /\ IsRepeated(self.of)
    \/ self.variant = "Message" /\ self.of.label = "Repeated"

\* C11: clear sets an Optional field, scalar or message without conversions,
\* to absent and empties a Repeated or Packed field whatever it held, and a
\* second clear changes nothing.
C11_ClearAbsentOrEmpty ==
    cleared =>
        /\ IsOptionalField(field) => ident = None
        /\ IsRepeatedField(field) => ident = <<>>
        /\ Field_clear(field, ident) = ident

\* A Packed field that held two elements was cleared.
C11_Witness ==
    /\ cleared
    /\ field.variant = "Scalar"
    /\ field.of.kind = "Packed"
    /\ Len(target) = 2
    /\ ident = <<>>

\* ------------------------------------------------------------------------
\* SpecSeq: one Repeated field, scalar or message, encoded element by element
\* and merged occurrence by occurrence
\* ------------------------------------------------------------------------

\* The fields of kind Repeated: scalar, and message with and without
\* conversions.
SeqFields ==
    {Field_Scalar(f) : f \in {g \in ScalarFields : g.kind = "Repeated"}}
    \cup {Field_Message(f) : f \in {g \in MessageFields : g.label = "Repeated"}}

\* The sequences the owner gives the field and can encode.
SeqValues(self) ==
    {v \in ClearValues(self) : self.variant = "Message" => Encodable(self.of, v)}

\* The values of the log entries of one operation, in order.
Logged(op) == SelectSeq(log, LAMBDA e : e.op = op)

InitSeq ==
    /\ field \in SeqFields
    /\ ident = Field_default(field)
    /\ cleared = FALSE
    /\ target = Field_default(field)
    /\ unhooked = None
    /\ buf = <<>>
    /\ err = ""
    /\ log = <<>>

\* The owner sets the field and encodes the message, before the receiver
\* starts to decode.
EncodeSeq(value) ==
    /\ Logged("merge") = <<>>
    /\ Len(Concat([i \in 1..Len(log) |-> log[i].value])) + Len(value) <= MaxWire
    /\ Len(log) < MaxWire
    /\ ident' = value
    /\ buf' = buf \o Field_encode(field, value)
    /\ log' = Append(log, [op |-> "encode", value |-> value,
                           out |-> Field_encode(field, value),
                           len |-> Field_encoded_len(field, value)])
    /\ UNCHANGED <<field, cleared, target, unhooked, err>>

\* The receiver after the merge call that returned r: the log keeps what the
\* field held before the call.
MergedSeq(r) ==
    /\ target' = r.value
    /\ buf' = r.rest
    /\ err' = r.err
    /\ log' = Append(log, [op |-> "merge", value |-> target,
                           out |-> SubSeq(buf, 1, Len(buf) - Len(r.rest)), len |-> 0])

\* The receiver reads one key and merges the occurrence that follows it.
MergeSeq ==
    /\ buf # <<>>
    /\ err = ""
    /\ MergedSeq(ThenOr(DecodeKey(buf),
                        LAMBDA key, rest : Field_merge(field, key[1], key[2], target, rest),
                        target))
    /\ UNCHANGED <<field, ident, cleared, unhooked>>

NextSeq ==
    \/ \E value \in SeqValues(field) : EncodeSeq(value)
    \/ MergeSeq

SpecSeq == InitSeq /\ [][NextSeq]_vars

\* ------------------------------------------------------------------------
\* Properties of a Repeated field
\* ------------------------------------------------------------------------

\* What a sequence of the field is on the wire: the scalars themselves, the
\* messages its elements convert to.
OnWire(self, value) ==
    IF self.variant = "Message" THEN without_msg_fns(self.of, value) ELSE value

\* The elements encoded so far, in stream order.
SeqSent == Concat([i \in 1..Len(Logged("encode")) |->
                        OnWire(field, Logged("encode")[i].value)])

Opt(items) == {<<>>} \cup {<<i>> : i \in items}

\* tag = "n" and tag = n for a tag that fits a u32 below 2^31.
TagStr(n) == Item("tag", "Str", Word(n, 8))

TagInt(n) == Item("tag", "Int", Word(n, 8))

\* The item that names a type: a word, or enumeration = "E".
TyItem(ty) == IF ty = "enum" THEN Item("enum", "Str", LitE) ELSE WordItem(ty)

\* A declared field: the items of its attribute, its type and the tag inferred
\* from its position.
Decl(attrs, field_ty, inferred_tag) ==
    [attrs |-> attrs, field_ty |-> field_ty, inferred_tag |-> inferred_tag]

\* Scalar fields: every type with every label, packed, default and a tag.
ScalarDecls ==
    {Decl(<<TyItem(ty)>> \o label \o packed \o default \o <<TagStr(1)>>, "u32", None) :
        ty \in Ty,
        label \in Opt({WordItem("optional"), WordItem("required"), WordItem("repeated")}),
        packed \in Opt({WordItem("packed"), Item("packed", "Str", LitFalse)}),
        default \in Opt({Item("default", "Str", LitOne), Item("default", "Str", LitNan)})}

\* The literals of a tag, as a string and as an integer: 0, 1, the ends of the
\* band 19000..19999 and the number after it, 2^29 - 1, 2^29 and 2^32 + 1, and a
\* literal that is no number.
TagItems ==
    {Item("tag", lit, Word(n, 8)) :
        lit \in {"Str", "Int", "List"},
        n \in {0, 1, 19000, 19999, 20000, 536870911, 536870912}}
    \cup {Item("tag", lit, <<1, 0, 0, 0, 1, 0, 0, 0>>) : lit \in {"Str", "Int", "List"}}
    \cup {Item("tag", "Bool", <<1>>)}

\* Fields with no tag, one tag or two, with and without an inferred tag.
TagDecls ==
    {Decl(<<kind>> \o tags, "Msg", inferred) :
        kind \in {WordItem("uint32"), WordItem("message")},
        tags \in Opt(TagItems) \cup {<<TagStr(1), TagInt(2)>>},
        inferred \in {None, Some(3)}}

\* The keywords that name a kind.
KindItems ==
    {WordItem("uint32"), WordItem("string"), WordItem("message"),
     Item("map", "Str", LitPath), Item("oneof", "Str", LitPath)}

\* Fields with no keyword, one or two, and a tag or a list of tags.
KindDecls ==
    {Decl(first \o second \o <<tagging>>, "Msg", None) :
        first \in Opt(KindItems), second \in Opt(KindItems),
        tagging \in {TagStr(1), Item("tags", "Str", Word(1, 8) \o Word(2, 8))}}

\* The conversion attributes in the order of a subset.
HookOrder == <<"as_msg", "as_msgs", "to_msg", "to_msgs", "from_msg", "merge_msg">>

HookItems(names) ==
    [i \in 1..Len(SelectSeq(HookOrder, LAMBDA h : h \in names)) |->
        Item(SelectSeq(HookOrder, LAMBDA h : h \in names)[i], "Str", LitPath)]

\* Message fields: every label with every set of conversion attributes.
HookDecls ==
    {Decl(<<WordItem("message")>> \o label \o HookItems(names) \o <<TagStr(1)>>, "Msg", None) :
        label \in Opt({WordItem("optional"), WordItem("required"), WordItem("repeated")}),
        names \in SUBSET HookNames}

Decls == ScalarDecls \cup TagDecls \cup KindDecls \cup HookDecls

InitNew ==
    /\ ident \in Decls
    /\ field = None
    /\ err = ""
    /\ log = <<>>
    /\ cleared = FALSE
    /\ target = None
    /\ unhooked = None
    /\ buf = <<>>

\* The macro keeps what the constructor returned.
Constructed(op, made) ==
    /\ log = <<>>
    /\ field' = made.value
    /\ err' = made.err
    /\ log' = <<op>>
    /\ UNCHANGED <<ident, cleared, target, unhooked, buf>>

\* Field::new on a field of a message.
New == Constructed("new", Field_new(ident.field_ty, ident.attrs, ident.inferred_tag))

\* Field::new_oneof on a variant of a oneof.
NewOneof == Constructed("new_oneof", Field_new_oneof(ident.attrs))

NextNew == New \/ NewOneof

SpecNew == InitNew /\ [][NextNew]_vars

\* The items of the declaration with a name.
Named(name) == SelectSeq(ident.attrs, LAMBDA a : a.name = name)

Has(name) == Named(name) # <<>>

\* The declaration has been given to Field::new, which made a field.
Made == log = <<"new">> /\ field # None

\* The declaration has been given to Field::new, which returned an error.
Rejected == log = <<"new">> /\ field = None /\ err # ""

\* The scalar type the declaration names, "" if it names none.
DeclaredTy ==
    IF \E i \in 1..Len(ident.attrs) : ident.attrs[i].name \in Ty
    THEN SelectSeq(ident.attrs, LAMBDA a : a.name \in Ty)[1].name
    ELSE ""

\* The label the declaration gives, "" if it gives none.
DeclaredLabel ==
    IF \E i \in 1..Len(ident.attrs) : Label_from_attr(ident.attrs[i]) # None
    THEN SelectSeq(ident.attrs, LAMBDA a : Label_from_attr(a) # None)[1].name
    ELSE ""

\* The declaration says packed, or packed = "true".
DeclaredPacked == Has("packed") /\ bool_attr("packed", Named("packed")[1]).value = Some(TRUE)

DeclaredDefault == DefaultValue_from_lit(DeclaredTy, Named("default")[1].value)

KindOf(attr) ==
    CASE attr.name \in Ty -> "Scalar"
      [] attr.name = "message" -> "Message"
      [] attr.name = "map" -> "Map"
      [] attr.name = "oneof" -> "Oneof"
      [] OTHER -> ""

\* The keywords of the declaration, and their kinds.
Keywords == SelectSeq(ident.attrs, LAMBDA a : KindOf(a) # "")

Kinds == {KindOf(Keywords[i]) : i \in 1..Len(Keywords)}

\* What the constructor of the first kind in the order scalar, message, map,
\* oneof that the declaration has a keyword of returns.
FirstKind ==
    CASE "Scalar" \in Kinds -> scalar_Field_new(ident.attrs)
      [] "Message" \in Kinds -> message_Field_new(ident.field_ty, ident.attrs, ident.inferred_tag)
      [] "Map" \in Kinds -> map_new(ident.attrs)
      [] "Oneof" \in Kinds -> oneof_new(ident.attrs)

TagInRange(v) ==
    /\ Len(v) = 8 /\ AllZero(SubSeq(v, 5, 8)) /\ v[4] < 32
    /\ U32(v) >= 1
    /\ U32(v) \notin 19000..19999

\* The number the tag attribute of the declaration gives.
DeclaredTag == Named("tag")[1].value

\* C16: a field made from a declaration with one tag attribute has that tag,
\* which is in 1..2^29 - 1 and outside 19000..19999; a tag attribute of 0, above
\* 2^29 - 1 or in the reserved band is rejected.
C16_TagRange ==
    (log = <<"new">> /\ Len(Named("tag")) = 1 /\ Len(DeclaredTag) = 8) =>
        /\ ~TagInRange(DeclaredTag) => Rejected
        /\ field # None =>
              /\ Word(field[1].of.tag, 8) = DeclaredTag
              /\ TagInRange(Word(field[1].of.tag, 8))

\* C17: a message field has the tag of its tag attribute when it has one, the
\* inferred tag otherwise; with neither it is rejected for its missing tag,
\* and with two tag attributes for the duplicate.
C17_TagResolution ==
    (log = <<"new">> /\ Kinds = {"Message"} /\ Len(Keywords) = 1
     /\ Len(ident.attrs) = 1 + Len(Named("tag"))) =>
        /\ (Len(Named("tag")) = 1 /\ tag_attr(Named("tag")[1]).ok) =>
              Made /\ field[1].of.tag = U32(DeclaredTag)
        /\ (~Has("tag") /\ ident.inferred_tag # None) =>
              Made /\ field[1].of.tag = ident.inferred_tag[1]
        /\ (~Has("tag") /\ ident.inferred_tag = None) =>
              Rejected /\ err = "message field is missing a tag attribute"
        /\ Len(Named("tag")) = 2 => Rejected /\ err = "duplicate tag attributes"

\* A message field with the tag attribute 1 and the inferred tag 3 has the
\* tag 1.
C17_Witness ==
    /\ Made /\ Kinds = {"Message"} /\ Named("tag") = <<TagStr(1)>>
    /\ ident.inferred_tag = Some(3)
    /\ field[1].of.tag = 1

\* The conversion attributes of the declaration.
Hooks == {h \in HookNames : Has(h)}

\* A message field with its label, its conversions and a tag, and nothing else.
HookDeclared ==
    /\ Kinds = {"Message"} /\ Len(Keywords) = 1 /\ Named("tag") = <<TagStr(1)>>
    /\ \A i \in 1..Len(ident.attrs) :
          \/ ident.attrs[i].name \in HookNames \cup {"message", "tag"}
          \/ Label_from_attr(ident.attrs[i]) # None

\* C18: a message field that is not repeated and declares a conversion is
\* rejected unless it declares exactly one of as_msg and to_msg, exactly one of
\* from_msg and merge_msg, and neither as_msgs nor to_msgs.
C18_HooksOneEachSide ==
    (log = <<"new">> /\ HookDeclared /\ DeclaredLabel # "repeated" /\ Hooks # {}) =>
        (field # None <=>
            /\ Cardinality(Hooks \cap {"as_msg", "to_msg"}) = 1
            /\ Cardinality(Hooks \cap {"from_msg", "merge_msg"}) = 1
            /\ Hooks \cap {"as_msgs", "to_msgs"} = {})

\* C19: a Repeated message field that declares a conversion is accepted when
\* it declares as_msg or to_msg, or else as_msgs or to_msgs, but not both
\* sorts, declares from_msg or merge_msg, and with as_msgs or to_msgs declares
\* merge_msg; it is rejected otherwise.
C19_RepeatedHooks ==
    (log = <<"new">> /\ HookDeclared /\ DeclaredLabel = "repeated" /\ Hooks # {}) =>
        /\ field # None <=>
              /\ (Hooks \cap {"as_msg", "to_msg"} # {}) # (Hooks \cap {"as_msgs", "to_msgs"} # {})
              /\ Hooks \cap {"from_msg", "merge_msg"} # {}
              /\ Hooks \cap {"as_msgs", "to_msgs"} # {} => "merge_msg" \in Hooks
        /\ field # None => \A h \in HookNames : field[1].of[h] # None <=> h \in Hooks
        /\ (Hooks \cap {"as_msg", "to_msg"} # {} /\ Hooks \cap {"as_msgs", "to_msgs"} # {}) =>
              err = "cannot use as_msg/to_msg and as_msgs/to_msgs at the same time"

\* A Repeated message field with as_msg and as_msgs has been rejected.
C19_Witness ==
    /\ Rejected /\ HookDeclared /\ DeclaredLabel = "repeated"
    /\ Hooks = {"as_msg", "as_msgs", "merge_msg"}

\* The message variant made, with the type the enum declares for it.
VariantOf(ty) == [field[1] EXCEPT !.of.field_ty = ty]

\* C20: a scalar or message variant that Field::new_oneof makes is Required,
\* has no conversion, and encodes the default value of its type (and its
\* declared default); a variant declared with a label or with a conversion is
\* rejected.
C20_OneofVariants ==
    log = <<"new_oneof">> =>
        /\ (field # None /\ Kinds = {"Scalar"}) =>
              /\ field[1].variant = "Scalar"
              /\ field[1].of.kind = "Required"
              /\ Field_encode(field[1], TypeDefault(field[1].of.ty)) # <<>>
              /\ Field_encode(field[1], field[1].of.default) # <<>>
              /\ Field_encoded_len(field[1], TypeDefault(field[1].of.ty)) > 0
        /\ (field # None /\ Kinds = {"Message"}) =>
              /\ field[1].variant = "Message"
              /\ field[1].of.label = "Required"
              /\ \A h \in HookNames : field[1].of[h] = None
              /\ Field_encode(VariantOf("Msg"), MessageDefault("Msg")) # <<>>
        /\ (Kinds \in {{"Scalar"}, {"Message"}} /\ DeclaredLabel # "") =>
              field = None /\ err # ""
        /\ (Kinds \in {{"Scalar"}, {"Message"}} /\ Hooks # {}) =>
              field = None /\ err # ""

\* A uint32 variant declared with no label has become a Required field, which
\* encodes 0.
C20_Witness ==
    /\ log = <<"new_oneof">> /\ field # None
    /\ DeclaredTy = "uint32" /\ DeclaredLabel = "" /\ ~Has("default")
    /\ field[1].of.kind = "Required"
    /\ Field_encode(field[1], Word(0, 4)) = <<8, 0>>

\* The declaration says packed = "false".
DeclaredUnpacked == Has("packed") /\ bool_attr("packed", Named("packed")[1]).value = Some(FALSE)

\* The kind the label, the packed attribute and the type of the declaration
\* resolve to.
ResolvedKind ==
    CASE DeclaredLabel = "" -> "Plain"
      [] DeclaredLabel = "optional" -> "Optional"
      [] DeclaredLabel = "required" -> "Required"
      [] DeclaredLabel = "repeated" ->
            IF DeclaredPacked \/ (~Has("packed") /\ DeclaredTy \notin {"string", "bytes"})
            THEN "Packed"
            ELSE "Repeated"

MaxEntries == 3

\* A map field of tag 3, as map::Field::new makes it.
MapField == [map_ty |-> LitPath, tag |-> 3]

MapKeys == {Word(0, 4), Word(1, 4)}

MapValues == {Word(0, 4), Word(1, 4), Word(2, 4)}

InitMap ==
    /\ field = MapField
    /\ ident = map_clear(field, {})
    /\ target = map_clear(field, {})
    /\ cleared = FALSE
    /\ unhooked = None
    /\ buf = <<>>
    /\ err = ""
    /\ log = <<>>

\* A sender encodes a map of one entry; the stream holds the entries of all.
EncodeEntry(k, v) ==
    /\ Len(Logged("encode")) < MaxEntries
    /\ ident' = {<<k, v>>}
    /\ buf' = buf \o map_encode(field, {<<k, v>>})
    /\ log' = Append(log, [op |-> "encode", value |-> <<k, v>>,
                           out |-> map_encode(field, {<<k, v>>}),
                           len |-> map_encoded_len(field, {<<k, v>>})])
    /\ UNCHANGED <<field, cleared, target, unhooked, err>>

\* The receiver reads one key and merges the entry that follows it.
MergeEntry ==
    /\ buf # <<>>
    /\ err = ""
    /\ MergedSeq(ThenOr(DecodeKey(buf),
                        LAMBDA fkey, rest : map_merge(field, fkey[2], target, rest),
                        target))
    /\ UNCHANGED <<field, ident, cleared, unhooked>>

NextMap == (\E k \in MapKeys, v \in MapValues : EncodeEntry(k, v)) \/ MergeEntry

SpecMap == InitMap /\ [][NextMap]_vars

\* The entries sent that the receiver has merged, in stream order.
EntriesMerged ==
    [i \in 1..Len(Logged("merge")) |-> Logged("encode")[i].value]

\* The last of the entries with the key k.
LastOf(entries, k) ==
    entries[CHOOSE i \in 1..Len(entries) :
                /\ entries[i][1] = k
                /\ \A j \in (i + 1)..Len(entries) : entries[j][1] # k]

\* C21: after every merge the map holds, for each key among the entries
\* merged, one entry, with the value of the last of them in the stream, and
\* no entry of another key.
C21_MapLastDuplicateWins ==
    /\ err = ""
    /\ \A p \in target : \E i \in 1..Len(EntriesMerged) : EntriesMerged[i][1] = p[1]
    /\ \A i \in 1..Len(EntriesMerged) :
          {p \in target : p[1] = EntriesMerged[i][1]}
              = {<<EntriesMerged[i][1], LastOf(EntriesMerged, EntriesMerged[i][1])[2]>>}

\* The stream held key 1 with value 1, then key 0, then key 1 with value 2:
\* the map holds key 1 with value 2, and key 0.
C21_Witness ==
    /\ Len(EntriesMerged) = 3 /\ buf = <<>>
    /\ EntriesMerged[1] = <<Word(1, 4), Word(1, 4)>>
    /\ EntriesMerged[2][1] = Word(0, 4)
    /\ EntriesMerged[3] = <<Word(1, 4), Word(2, 4)>>
    /\ target = {<<Word(1, 4), Word(2, 4)>>, EntriesMerged[2]}

\* ------------------------------------------------------------------------
\* SpecWire: the varint and zigzag functions on words and buffers
\* ------------------------------------------------------------------------

\* 64 bit words: small numbers, the ends of the one and two byte varints, the
\* words with one bit or one byte set, -1, the signed minimum and maximum.
WireWords ==
    {Word(n, 8) : n \in {0, 1, 2, 127, 128, 300, 16383, 16384}}
    \cup {[i \in 1..8 |-> IF i = j THEN b ELSE 0] : j \in 1..8, b \in {1, 128, 255}}
    \cup {[i \in 1..8 |-> 255], [i \in 1..8 |-> IF i = 8 THEN 127 ELSE 255],
          [i \in 1..8 |-> IF i = 1 THEN 254 ELSE 255]}

\* Buffers: up to eleven bytes with the continuation bit, alone or followed by
\* a byte without it.
WireBufs ==
    {[i \in 1..n |-> b] : n \in 0..(MaxVarintBytes + 1), b \in {128, 255}}
    \cup {[i \in 1..(n + 1) |-> IF i <= n THEN b ELSE last] :
            n \in 0..(MaxVarintBytes + 1), b \in {128, 255}, last \in {0, 1, 127}}

InitWire ==
    /\ ident \in WireWords
    /\ buf \in WireBufs
    /\ target = None
    /\ field = None
    /\ cleared = FALSE
    /\ unhooked = None
    /\ err = ""
    /\ log = <<>>

\* One call: the buffer it read or wrote, and what it returned.
Called(op, bytes, returned) ==
    /\ log = <<>>
    /\ buf' = bytes
    /\ target' = returned
    /\ log' = <<op>>
    /\ UNCHANGED <<field, ident, cleared, unhooked, err>>

\* decode_varint on the buffer.
DecodeBuf == Called("decode_varint", buf, DecodeVarint(buf))

\* encode_varint of the word, and decode_varint of the bytes.
RoundTripVarint ==
    Called("encode_varint", EncodeVarint(ident), DecodeVarint(EncodeVarint(ident)))

\* decode_varint of the first n bytes of the varint of the word.
DecodeCut(n) ==
    /\ n < Len(EncodeVarint(ident))
    /\ Called("decode_varint", SubSeq(EncodeVarint(ident), 1, n),
              DecodeVarint(SubSeq(EncodeVarint(ident), 1, n)))

\* The zigzag of the word, and the word of the zigzag.
RoundTripZigZag == Called("zigzag", ZigZagEncode(ident), ZigZagDecode(ZigZagEncode(ident)))

NextWire ==
    \/ DecodeBuf
    \/ RoundTripVarint
    \/ \E n \in 0..(MaxVarintBytes - 1) : DecodeCut(n)
    \/ RoundTripZigZag

SpecWire == InitWire /\ [][NextWire]_vars

\* The bytes of the buffer up to its first byte without the continuation bit,
\* all of it if it has none.
Continuation ==
    IF \E i \in 1..Len(buf) : buf[i] < 128
    THEN (CHOOSE i \in 1..Len(buf) : buf[i] < 128 /\ \A j \in 1..(i - 1) : buf[j] >= 128) - 1
    ELSE Len(buf)

\* C22: decode_varint fails with Truncated on an empty buffer and on one that
\* ends before a byte without the continuation bit, with VarintOverflow after
\* ten bytes with the continuation bit; otherwise it succeeds and leaves the
\* bytes after the varint, and the varint of a word decodes to the word.
C22_VarintBoundaries ==
    /\ log = <<"decode_varint">> =>
          /\ buf = <<>> => ~target.ok /\ target.err = "Truncated"
          /\ (Continuation = Len(buf) /\ Len(buf) < MaxVarintBytes) =>
                ~target.ok /\ target.err = "Truncated"
          /\ Continuation >= MaxVarintBytes => ~target.ok /\ target.err = "VarintOverflow"
          /\ (Continuation < Len(buf) /\ Continuation < MaxVarintBytes) =>
                target.ok /\ target.rest = SubSeq(buf, Continuation + 2, Len(buf))
    /\ log = <<"encode_varint">> =>
          /\ target = Ok(ident, <<>>)
          /\ Len(buf) \in 1..MaxVarintBytes

\* decode_varint has failed with VarintOverflow on ten bytes with the
\* continuation bit.
C22_Witness ==
    /\ log = <<"decode_varint">>
    /\ buf = [i \in 1..MaxVarintBytes |-> 255]
    /\ target.err = "VarintOverflow"

\* C23: the zigzag of a word decodes to the word; the zigzag of n >= 0 is 2n
\* and that of n < 0 is the complement of 2n, modulo 2^64: -1 gives 1, the
\* minimum gives 2^64 - 1 and the maximum 2^64 - 2.
C23_ZigZagBijection ==
    log = <<"zigzag">> =>
        /\ target = ident
        /\ buf[1] % 2 = (IF IsNegative(ident) THEN 1 ELSE 0)
        /\ AllZero(SubSeq(ident, 3, 8)) => AllZero(SubSeq(buf, 4, 8)) /\ Small(buf) = 2 * Small(ident)
        /\ IsNegative(ident) => \A i \in 1..8 : buf[i] = 255 - Shl1(ident)[i]
        /\ ident = [i \in 1..8 |-> 255] => buf = Word(1, 8)
        /\ ident = [i \in 1..8 |-> IF i = 8 THEN 128 ELSE 0] => buf = [i \in 1..8 |-> 255]
        /\ ident = [i \in 1..8 |-> IF i = 8 THEN 127 ELSE 255] =>
              buf = [i \in 1..8 |-> IF i = 1 THEN 254 ELSE 255]

\* The signed minimum has been encoded as 2^64 - 1 and decoded again.
C23_Witness ==
    /\ log = <<"zigzag">>
    /\ ident = [i \in 1..8 |-> IF i = 8 THEN 128 ELSE 0]
    /\ buf = [i \in 1..8 |-> 255]
    /\ target = ident

\* ------------------------------------------------------------------------
\* prost::serde::de: values that may be an unknown enumeration name
\* ------------------------------------------------------------------------

\* MaybeDeserializedValue::Val(v).
Val(v) == [variant |-> "Val", val |-> <<v>>]

\* MaybeDeserializedValue::UnknownEnumValue.
UnknownEnumValue == [variant |-> "UnknownEnumValue", val |-> <<>>]

\* T::default() of the types the model deserializes: an enumeration as i32,
\* and a string.
serde_default(ty) == IF ty = "i32" THEN Word(0, 4) ELSE <<>>

\* The mutant of unwrap_for_field: the unknown value is defaulted whatever the
\* configuration says.
unwrap_for_field_silent(self, config, field_name, ty) ==
    IF self.variant = "Val" THEN Ok(self.val[1], <<>>) ELSE Ok(serde_default(ty), <<>>)

\* unwrap_for_field: ty stands for the type parameter T.  The message of the
\* error is the source's, without its quotes around the name.
unwrap_for_field(self, config, field_name, ty) ==
    CASE self.variant = "Val" -> Ok(self.val[1], <<>>)
      [] self.variant = "UnknownEnumValue" /\ config.ignore_unknown_enum_string_values ->
            Ok(serde_default(ty), <<>>)
      [] OTHER -> Err("found an unknown enum value at field " \o field_name)

\* unwrap_for_omittable: the result is an Option.
unwrap_for_omittable(self, config, location) ==
    CASE self.variant = "Val" -> Ok(Some(self.val[1]), <<>>)
      [] self.variant = "UnknownEnumValue" /\ config.ignore_unknown_enum_string_values ->
            Ok(None, <<>>)
      [] OTHER -> Err("found an unknown enum value " \o location)

\* ------------------------------------------------------------------------
\* SpecSerde: the two unwraps on every value and configuration
\* ------------------------------------------------------------------------

SerdeTypes == {"i32", "String"}

\* The values of a type: the default is among them.
SerdeValues(ty) ==
    IF ty = "i32"
    THEN {Word(n, 4) : n \in 0..24} \cup {[i \in 1..4 |-> 255]}
    ELSE {<<>>, <<0>>, <<65>>, <<65, 66>>, <<0, 0, 0, 0>>}

InitSerde ==
    /\ \E ty \in SerdeTypes :
          \E self \in {Val(v) : v \in SerdeValues(ty)} \cup {UnknownEnumValue} :
              ident = [ty |-> ty, self |-> self]
    /\ \E flag \in BOOLEAN : field = [ignore_unknown_enum_string_values |-> flag]
    /\ buf \in {"kind", "status"}
    /\ target = None
    /\ cleared = FALSE
    /\ unhooked = None
    /\ err = ""
    /\ log = <<>>

Unwrapped(op, returned) ==
    /\ log = <<>>
    /\ target' = returned
    /\ log' = <<op>>
    /\ UNCHANGED <<field, ident, cleared, buf, unhooked, err>>

UnwrapForField ==
    Unwrapped("unwrap_for_field", unwrap_for_field(ident.self, field, buf, ident.ty))

UnwrapForOmittable ==
    Unwrapped("unwrap_for_omittable", unwrap_for_omittable(ident.self, field, buf))

NextSerde == UnwrapForField \/ UnwrapForOmittable

SpecSerde == InitSerde /\ [][NextSerde]_vars

\* C24: unwrap_for_field and unwrap_for_omittable return the value of Val(v)
\* unchanged; for UnknownEnumValue they return the default, respectively None,
\* when ignore_unknown_enum_string_values is set, and an error when it is not.
C24_UnknownEnumNeverSilent ==
    /\ log = <<"unwrap_for_field">> =>
          /\ ident.self.variant = "Val" => target = Ok(ident.self.val[1], <<>>)
          /\ ident.self.variant = "UnknownEnumValue" =>
                IF field.ignore_unknown_enum_string_values
                THEN target = Ok(serde_default(ident.ty), <<>>)
                ELSE ~target.ok /\ target.err # ""
    /\ log = <<"unwrap_for_omittable">> =>
          /\ ident.self.variant = "Val" => target = Ok(Some(ident.self.val[1]), <<>>)
          /\ ident.self.variant = "UnknownEnumValue" =>
                IF field.ignore_unknown_enum_string_values
                THEN target = Ok(None, <<>>)
                ELSE ~target.ok /\ target.err # ""

\* unwrap_for_field has failed on an unknown value with the toggle unset.
C24_Witness ==
    /\ log = <<"unwrap_for_field">>
    /\ ident.self = UnknownEnumValue
    /\ ~field.ignore_unknown_enum_string_values
    /\ ~target.ok
    /\ target.err = "found an unknown enum value at field kind"

\* ------------------------------------------------------------------------
\* SpecLen: one field of any kind, assigned, cleared and encoded
\* ------------------------------------------------------------------------

\* The owner assigns the field: nothing of it is encoded yet.
AssignField(value) ==
    /\ ident' = value
    /\ cleared' = FALSE
    /\ log' = <<>>
    /\ UNCHANGED <<field, buf, target, unhooked, err>>

\* The owner clears the message.
ClearAssigned ==
    /\ ~cleared
    /\ ident' = Field_clear(field, ident)
    /\ cleared' = TRUE
    /\ log' = <<>>
    /\ UNCHANGED <<field, buf, target, unhooked, err>>

\* The message is encoded as it is: encoded_len, then encode into an empty
\* buffer.
EncodeField ==
    /\ log = <<>>
    /\ field.variant = "Message" => Encodable(field.of, ident)
    /\ buf' = Field_encode(field, ident)
    /\ log' = <<[value |-> ident, out |-> Field_encode(field, ident),
                 len |-> Field_encoded_len(field, ident)]>>
    /\ UNCHANGED <<field, ident, cleared, target, unhooked, err>>

NextLen ==
    \/ \E value \in ClearValues(field) : AssignField(value)
    \/ ClearAssigned
    \/ EncodeField

SpecLen == InitClear /\ [][NextLen]_vars

\* C25: for a field of every kind and label, with and without conversions,
\* and every value, encoded_len returns the number of bytes encode appends to
\* the buffer; one is zero exactly when the other appends nothing.
C25_EncodedLenAgrees ==
    log # <<>> =>
        /\ log[1].len = Len(log[1].out)
        /\ buf = log[1].out

\* A repeated field with a conversion has been encoded to some bytes, and a
\* Plain scalar field at its default to none.
C25_Witness ==
    /\ log # <<>>
    /\ field.variant = "Message"
    /\ field.of.label = "Repeated"
    /\ field.of.as_msg # None
    /\ Len(ident) = 2
    /\ log[1].len = Len(log[1].out)
    /\ log[1].len > 0

\* C27: a cleared field is off the wire.  Right after clear a Plain, Optional,
\* Repeated or Packed scalar field of every type and configured default has
\* encoded_len 0 and encodes to no bytes; a Required field is still encoded.
C27_ClearedOffWire ==
    (cleared /\ log # <<>> /\ field.variant = "Scalar") =>
        IF field.of.kind = "Required"
        THEN log[1].len > 0 /\ log[1].out # <<>>
        ELSE log[1].len = 0 /\ log[1].out = <<>>

\* ------------------------------------------------------------------------
\* SpecFail: one message field merges records that are whole, cut or of
\* another wire type
\* ------------------------------------------------------------------------

\* The records of the field's tag: every message of its type, encoded.
WholeRecords(f) ==
    {encoding_message_encode(f.tag, msg_ty(f), m) : m \in TyValues(msg_ty(f), MaxWire)}

\* A record, whole or cut after some of its bytes, or with the wire type of
\* its key changed from length delimited to varint.
FieldRecords(f) ==
    UNION {{SubSeq(w, 1, n) : n \in 1..Len(w)} : w \in WholeRecords(f)}
    \cup {[i \in 1..Len(w) |-> IF i = 1 THEN w[i] - 2 ELSE w[i]] : w \in WholeRecords(f)}

\* The owner assigns the field.
AssignMsg(value) ==
    /\ log = <<>>
    /\ ident' = value
    /\ UNCHANGED <<field, cleared, buf, target, unhooked, err, log>>

\* The call of merge that returned r for the key.
MergeReturned(bytes, key, r) ==
    /\ buf' = bytes
    /\ ident' = r.value
    /\ err' = r.err
    /\ log' = <<[before |-> ident, key |-> key.ok, ok |-> r.ok, rest |-> r.rest]>>

\* The message reads the key of a record and merges the value that follows it
\* into the field.
MergeRecord(bytes) ==
    /\ log = <<>>
    /\ MergeReturned(bytes, DecodeKey(bytes),
                     ThenOr(DecodeKey(bytes),
                            LAMBDA key, rest : message_merge(field, key[2], ident, rest),
                            ident))
    /\ UNCHANGED <<field, cleared, target, unhooked>>

NextFail ==
    \/ \E value \in TyValues(field.field_ty, MaxWire) : AssignMsg(value)
    \/ \E bytes \in FieldRecords(field) : MergeRecord(bytes)

SpecFail == InitMsg /\ [][NextFail]_vars

\* The field is converted on the way from the wire.
FromWire(f) == f.from_msg # None \/ f.merge_msg # None

\* C26: a merge into a field with a from_msg or merge_msg conversion that
\* fails to decode the value returns the error and leaves the field as it was,
\* a Repeated one with the elements it had; a merge that succeeds has handed
\* the decoded message to the conversion.
C26_FailedMergeUntouched ==
    (log # <<>> /\ log[1].key /\ FromWire(field)) =>
        IF log[1].ok
        THEN err = ""
        ELSE /\ err # ""
             /\ ident = log[1].before
             /\ field.label = "Repeated" => Len(ident) = Len(log[1].before)

\* A Repeated field with a conversion, holding two elements, has been given a
\* record cut short: the merge failed and the two elements are there.
C26_Witness ==
    /\ log # <<>>
    /\ log[1].key
    /\ ~log[1].ok
    /\ field.label = "Repeated"
    /\ FromWire(field)
    /\ Len(log[1].before) = 2
    /\ ident = log[1].before
    /\ err = "Truncated"

\* ------------------------------------------------------------------------
\* SpecHook: a message field with conversions is encoded, rendered, merged
\* into and cleared
\* ------------------------------------------------------------------------

\* Fields that name two conversions of one side: as_msg and to_msg, from_msg
\* and merge_msg, as_msgs and to_msgs.
PairDecls ==
    {<<"Option<Msg>", MessageAttrs(Some("Optional"), 3, Some("Option::as_ref"), None,
                                   Some("none"), None, Some("id"), None)>>,
     <<"(u32, String)", MessageAttrs(Some("Required"), 5, Some("get_tuple_left"), None,
                                     None, None, Some("id"), Some("set_tuple_left"))>>,
     <<"Vec<Msg>", MessageAttrs(Some("Repeated"), 13, None, Some("Vec::as_slice"),
                                None, Some("none"), None, Some("Vec::push"))>>}

HookFields ==
    MessageFields \cup {message_new(d[1], d[2], None).value[1] : d \in PairDecls}

InitHook ==
    /\ field \in HookFields
    /\ ident = RustDefault(field.field_ty)
    /\ target = RustDefault(field.field_ty)
    /\ cleared = FALSE
    /\ unhooked = None
    /\ buf = <<>>
    /\ err = ""
    /\ log = <<>>

\* The owner and a receiver hold the same value of the field.
AssignBoth(value) ==
    /\ ~cleared
    /\ log = <<>>
    /\ ident' = value
    /\ target' = value
    /\ UNCHANGED <<field, cleared, buf, unhooked, err, log>>

\* The owner's message is measured, encoded and formatted.
EncodeHooked ==
    /\ ~cleared
    /\ log = <<>>
    /\ Encodable(field, ident)
    /\ buf' = message_encode(field, ident)
    /\ log' = <<[op |-> "encode", len |-> message_encoded_len(field, ident),
                 debug |-> message_debug(field, ident), wire |-> <<>>]>>
    /\ UNCHANGED <<field, ident, cleared, target, unhooked, err>>

\* The receiver merges the record of the message msg into the field.
MergeHooked(msg) ==
    /\ log = <<>>
    /\ Merged(ThenOr(DecodeKey(encoding_message_encode(field.tag, msg_ty(field), msg)),
                     LAMBDA key, rest : message_merge(field, key[2], target, rest),
                     target))
    /\ log' = <<[op |-> "merge", len |-> 0, debug |-> <<>>, wire |-> <<msg>>]>>
    /\ UNCHANGED <<field, ident, cleared, unhooked>>

\* The owner clears its message, encoded no more.
ClearHooked ==
    /\ ~cleared
    /\ log # <<>> => log[1].op = "merge"
    /\ ident' = message_clear(field, ident)
    /\ cleared' = TRUE
    /\ UNCHANGED <<field, buf, target, unhooked, err, log>>

NextHook ==
    \/ \E value \in TyValues(field.field_ty, MaxWire) : AssignBoth(value)
    \/ EncodeHooked
    \/ \E msg \in TyValues(msg_ty(field), MaxWire) : MergeHooked(msg)
    \/ ClearHooked

SpecHook == InitHook /\ [][NextHook]_vars

\* The bytes of value, the messages or the Option of a message that the
\* conversion to the wire returned.
EncodingOf(f, value) ==
    CASE f.label = "Optional" -> encode_some(f.tag, msg_ty(f), value)
      [] f.label = "Required" -> encoding_message_encode(f.tag, msg_ty(f), value)
      [] f.label = "Repeated" -> encode_each(f.tag, msg_ty(f), value)

\* What the conversion from the wire that goes first, merge_msg before
\* from_msg, makes of the field value and the wire value.
FromSide(f, value, wire) ==
    IF f.merge_msg # None THEN CallMerge(f.merge_msg[1], value, wire)
    ELSE Call(f.from_msg[1], wire)

\* C29: the conversions are chosen alike by the operations.  encode and
\* encoded_len write what debug renders: the result of as_msg if there is one,
\* of to_msg otherwise, and for a Repeated field the result of as_msgs or
\* to_msgs whenever there is one.  merge and clear of a field that is not
\* repeated hand their value to the same conversion, merge_msg if there is
\* one, from_msg otherwise: clear the default of the wire value (None for an
\* Optional field, a new message for a Required one), so that a Required field
\* is cleared to what the merge of an empty record leaves.
C29_HookSelection ==
    /\ (log # <<>> /\ log[1].op = "encode") =>
          /\ buf = EncodingOf(field, log[1].debug)
          /\ log[1].len = Len(buf)
          /\ (field.label # "Repeated" /\ field.as_msg # None) =>
                log[1].debug = Call(field.as_msg[1], ident)
          /\ (field.label # "Repeated" /\ field.as_msg = None /\ field.to_msg # None) =>
                log[1].debug = Call(field.to_msg[1], ident)
          /\ (field.label = "Repeated" /\ field.as_msgs # None) =>
                log[1].debug = Call(field.as_msgs[1], ident)
          /\ (field.label = "Repeated" /\ field.as_msgs = None /\ field.to_msgs # None) =>
                log[1].debug = Call(field.to_msgs[1], ident)
    /\ (field.label # "Repeated" /\ FromWire(field)) =>
          /\ (log # <<>> /\ log[1].op = "merge" /\ ~cleared) =>
                /\ err = ""
                /\ target = FromSide(field, ident,
                                     IF field.label = "Optional" THEN Some(log[1].wire[1])
                                     ELSE log[1].wire[1])
          /\ (cleared /\ log = <<>>) =>
                ident = FromSide(field, target,
                                 IF field.label = "Optional" THEN None
                                 ELSE MessageDefault(msg_ty(field)))
          /\ (cleared /\ log # <<>> /\ log[1].op = "merge" /\ field.label = "Required"
                /\ log[1].wire[1] = MessageDefault(msg_ty(field))) =>
                ident = target

\* The Required field with from_msg and merge_msg, holding a tuple, has been
\* cleared by its owner and has merged an empty record at the receiver: both
\* hold what merge_msg made of the tuple and a new message.
C29_Witness ==
    /\ cleared
    /\ log # <<>>
    /\ log[1].op = "merge"
    /\ field.label = "Required"
    /\ field.from_msg # None
    /\ field.merge_msg # None
    /\ log[1].wire[1] = MessageDefault(msg_ty(field))
    /\ ident = target
    /\ ident[2] = <<97>>

\* ------------------------------------------------------------------------
\* SpecDup: the loops of scalar::Field::new and message::Field::new, item by
\* item, over attributes that repeat
\* ------------------------------------------------------------------------

\* The items a declaration is made of, any of them more than once: those a
\* loop looks for, two types, labels, tags and paths among them, and one it
\* does not know.
DupItems(loop) ==
    {WordItem("uint32"), WordItem("optional"), WordItem("repeated"), TagStr(1), TagInt(2),
     WordItem("message")}
    \cup (IF loop = "scalar"
          THEN {WordItem("string"), WordItem("packed"), Item("default", "Str", LitOne)}
          ELSE {WordItem("boxed"), Item("as_msg", "Str", LitPath), Item("as_msg", "Str", LitE)})

\* The longest declaration.
MaxItems == 3

DupDecls(loop) ==
    UNION {{Decl(attrs, "Msg", None) : attrs \in [1..n -> DupItems(loop)]} : n \in 1..MaxItems}

\* What a loop has found before the first item.
NoAttrs(loop) == IF loop = "scalar" THEN NoScalarAttrs ELSE NoMessageAttrs

\* One turn of a loop.
LoopTurn(loop, attr, acc) ==
    IF loop = "scalar" THEN scalar_attr(attr, acc) ELSE message_attr(attr, acc)

InitDup ==
    /\ unhooked \in {"scalar", "message"}
    /\ ident \in DupDecls(unhooked)
    /\ target = NoAttrs(unhooked)
    /\ log = <<>>
    /\ err = ""
    /\ field = None
    /\ buf = None
    /\ cleared = FALSE

\* The loop takes the next item: the options are as set_option or set_bool
\* left them, and an error ends the loop.
Turn ==
    /\ err = ""
    /\ Len(log) < Len(ident.attrs)
    /\ target' = (IF LoopTurn(unhooked, ident.attrs[Len(log) + 1], target).ok
                  THEN LoopTurn(unhooked, ident.attrs[Len(log) + 1], target).value
                  ELSE target)
    /\ err' = LoopTurn(unhooked, ident.attrs[Len(log) + 1], target).err
    /\ log' = Append(log, ident.attrs[Len(log) + 1])
    /\ UNCHANGED <<field, ident, cleared, buf, unhooked>>

\* Field::new on the declaration has returned: the loop is over.
NewDup ==
    /\ ~cleared
    /\ err # "" \/ Len(log) = Len(ident.attrs)
    /\ buf' = Field_new(ident.field_ty, ident.attrs, ident.inferred_tag)
    /\ cleared' = TRUE
    /\ UNCHANGED <<field, ident, target, unhooked, err, log>>

NextDup == Turn \/ NewDup

SpecDup == InitDup /\ [][NextDup]_vars

\* The options of a loop.
Options(loop) == DOMAIN NoAttrs(loop) \ {"unknown"}

\* The items among attrs that set the option of a loop.
Setting(loop, option, attrs) ==
    SelectSeq(attrs, LAMBDA a : LoopTurn(loop, a, NoAttrs(loop)).value[option]
                                    # NoAttrs(loop)[option])

\* C30: set_option on an option that is set and set_bool on a flag that is
\* true return an error and leave it as it was, and set what is not set: after
\* every turn of a loop each option holds what the first item that sets it
\* gave, the second item that sets an option ends the loop with an error, and
\* Field::new fails on a declaration with two items that set the same option.
C30_FirstWins ==
    /\ \A option \in Options(unhooked) :
          /\ target[option] =
                (IF Setting(unhooked, option, log) = <<>>
                 THEN NoAttrs(unhooked)[option]
                 ELSE LoopTurn(unhooked, Setting(unhooked, option, log)[1],
                               NoAttrs(unhooked)).value[option])
          /\ Len(Setting(unhooked, option, log)) <= 2
          /\ Len(Setting(unhooked, option, log)) = 2 <=>
                (err # "" /\ Setting(unhooked, option, <<log[Len(log)]>>) # <<>>)
    /\ cleared =>
          \A loop \in {"scalar", "message"} : \A option \in Options(loop) :
              Len(Setting(loop, option, ident.attrs)) >= 2 => ~buf.ok /\ buf.err # ""

\* The scalar loop has kept the tag 1 of tag = "1" and ended on tag = 2, and
\* Field::new has failed on the declaration.
C30_Witness ==
    /\ unhooked = "scalar"
    /\ log = <<WordItem("uint32"), TagStr(1), TagInt(2)>>
    /\ err = "duplicate tag attributes"
    /\ target.tag = Some(1)
    /\ cleared
    /\ ~buf.ok

====
